---------------------------- MODULE Spec2Model ----------------------------
(***************************************************************************)
(* Model of the masterapp EIS pipeline: signal validation (pkg/signal),    *)
(* the mixed-radix transform (pkg/fft) and the impedance calculator        *)
(* (pkg/impedance).                                                        *)
(*                                                                         *)
(* Numbers.  A float64 is a record [cls, p, q, d]: cls is "fin", "nan",    *)
(* "pinf" or "ninf"; a finite value is (p + q*sqrt(3)) / d with d > 0 and  *)
(* gcd(p, q, d) = 1, so equal numbers have equal records.  The field       *)
(* Q(sqrt 3) holds the real and imaginary parts of every 12th root of      *)
(* unity, so the transform of lengths 1, 2, 3, 4 and 6 is computed         *)
(* exactly.  Rounding and overflow of float64 are not modelled.            *)
(* A complex128 is [re, im] of two such numbers.                           *)
(***************************************************************************)
EXTENDS Integers, Sequences, FiniteSets, TLC

VARIABLES
    op,        \* the operation applied last ("none" after construction)
    inV,       \* the (voltage) Signal given to the operations
    inC,       \* the current Signal given to the pair operations
    inS,       \* the ComplexSignal given to GetPositiveFrequencies
    inD,       \* the ImpedanceData given to ValidateImpedanceData
    argN,      \* the length n given last to generateFrequencies
    outSig,    \* the ComplexSignal returned last
    outImp,    \* the ImpedanceData returned last
    outFreq,   \* the frequency slice returned last by generateFrequencies
    outMeas,   \* the EISMeasurement returned last
    err,       \* the error returned last (NoErr for nil)
    calls,     \* the sub-operations the last operation invoked, in order
    log,       \* the operations invoked one after another on the same inputs
    seen,      \* for each of them, the results its invocations returned
    vq,        \* the voltage channel: the ticks of the signals it buffers
    cq,        \* the current channel, likewise
    tick,      \* the ticks the producer has taken from its ticker
    ppc,       \* where the producer goroutine (StartReceiving) is
    cpc,       \* where the consumer goroutine (processSignals) is
    mpc,       \* where main is
    held,      \* the voltage signal the consumer has received (its tick)
    handed,    \* the pair the consumer handed to the calculator last
    cycle,     \* how the consumer's last cycle ended
    cancelled, \* ctx has been cancelled
    vClosed,   \* the voltage channel has been closed
    cClosed,   \* the current channel has been closed
    running,   \* dr.running
    spectraCount,    \* the -spectra flag of direct EIS mode
    spectrumCounter, \* EISGenerator.spectrumCounter
    batch,           \* the iterations of the batch generated last
    iterations,      \* the iterations written to the output file, in order
    epc,             \* where runDirectEISMode is
    signals,      \* FileReceiver: what the validator finds of each loaded pair
    currentIndex, \* FileReceiver.currentIndex
    offered,      \* the indices whose pair was offered to the channels
    fret,         \* what FileReceiver.StartReceiving returned
    targetURL, \* DefaultSender.targetURL
    healthy,   \* DefaultSender.healthy
    sends,     \* the send calls made on the sender
    requests,  \* the HTTP requests the sender's client performed
    lastSend,  \* how the last send call with a target URL went
    sendErr,   \* the error the last send call returned
    records,   \* the records of the CSV file, the header first
    csvRate,   \* the sampleRate given to LoadSignalFromCSV
    loaded,    \* the signals LoadSignalFromCSV returned
    loadErr,   \* the error it returned
    lpc        \* where LoadSignalFromCSV is

coreVars == <<op, inV, inC, inS, inD, argN, outSig, outImp, outFreq, outMeas,
              err, calls, log, seen>>

pipeVars == <<vq, cq, tick, ppc, cpc, mpc, held, handed, cycle, cancelled,
              vClosed, cClosed, running>>

eisVars == <<spectraCount, spectrumCounter, batch, iterations, epc>>

fileVars == <<signals, currentIndex, offered, fret>>

netVars == <<targetURL, healthy, sends, requests, lastSend, sendErr>>

loadVars == <<records, csvRate, loaded, loadErr, lpc>>

vars == <<coreVars, pipeVars, eisVars, fileVars, netVars, loadVars>>

----------------------------------------------------------------------------
(* float64 *)

\* F(v) and F(v, w) with the arguments computed once, before F uses them
\* (call by value, as in Go).
Bind(v, F(_)) == CHOOSE r \in {F(x) : x \in {v}} : TRUE

Bind2(v, w, F(_, _)) == CHOOSE r \in {F(x, y) : x \in {v}, y \in {w}} : TRUE

Abs(n) == IF n < 0 THEN -n ELSE n

Sgn(n) == IF n < 0 THEN -1 ELSE IF n > 0 THEN 1 ELSE 0

RECURSIVE GCD(_, _)
GCD(a, b) == IF b = 0 THEN a ELSE GCD(b, a % b)

NaN == [cls |-> "nan", p |-> 0, q |-> 0, d |-> 1]

PInf == [cls |-> "pinf", p |-> 0, q |-> 0, d |-> 1]

NInf == [cls |-> "ninf", p |-> 0, q |-> 0, d |-> 1]

\* (p + q*sqrt 3) / d in lowest terms; d # 0.
Fin(p, q, d) ==
    LET g == GCD(GCD(Abs(p), Abs(q)), Abs(d))
        s == IF d < 0 THEN -1 ELSE 1
    IN  [cls |-> "fin", p |-> (s * p) \div g, q |-> (s * q) \div g,
         d |-> (s * d) \div g]

Rat(n, d) == Fin(n, 0, d)

I2F(n) == Fin(n, 0, 1)

IsNaN(x) == x.cls = "nan"

IsInf(x) == x.cls \in {"pinf", "ninf"}

IsFinite(x) == x.cls = "fin"

\* The sign of a number that is not NaN: p + q*sqrt 3 has the sign of the
\* term that is larger in absolute value (p^2 against 3 q^2).
FSign(x) ==
    CASE x.cls = "pinf" -> 1
      [] x.cls = "ninf" -> -1
      [] x.cls = "nan" -> 0
      [] OTHER ->
            IF x.q = 0 THEN Sgn(x.p)
            ELSE IF x.p = 0 THEN Sgn(x.q)
            ELSE IF Sgn(x.p) = Sgn(x.q) THEN Sgn(x.p)
            ELSE IF x.p * x.p > 3 * x.q * x.q THEN Sgn(x.p)
            ELSE Sgn(x.q)

InfOfSign(s) == IF s > 0 THEN PInf ELSE NInf

FNeg(a) ==
    Bind(a, LAMBDA x :
        CASE x.cls = "fin" -> Fin(-x.p, -x.q, x.d)
          [] x.cls = "pinf" -> NInf
          [] x.cls = "ninf" -> PInf
          [] OTHER -> NaN)

FAdd(a, b) ==
    Bind2(a, b, LAMBDA x, y :
        CASE IsNaN(x) \/ IsNaN(y) -> NaN
          [] IsInf(x) /\ IsInf(y) -> IF x = y THEN x ELSE NaN
          [] IsInf(x) -> x
          [] IsInf(y) -> y
          [] OTHER -> Fin(x.p * y.d + y.p * x.d, x.q * y.d + y.q * x.d,
                          x.d * y.d))

FSub(x, y) == FAdd(x, FNeg(y))

FMul(a, b) ==
    Bind2(a, b, LAMBDA x, y :
        CASE IsNaN(x) \/ IsNaN(y) -> NaN
          [] IsInf(x) \/ IsInf(y) ->
                IF FSign(x) * FSign(y) = 0 THEN NaN
                ELSE InfOfSign(FSign(x) * FSign(y))
          [] OTHER -> Fin(x.p * y.p + 3 * x.q * y.q, x.p * y.q + x.q * y.p,
                          x.d * y.d))

\* 1 / x for finite x # 0:  d (p - q sqrt 3) / (p^2 - 3 q^2).
FInv(a) ==
    Bind(a, LAMBDA x :
        Fin(x.d * x.p, -(x.d * x.q), x.p * x.p - 3 * x.q * x.q))

FDiv(a, b) ==
    Bind2(a, b, LAMBDA x, y :
        CASE IsNaN(x) \/ IsNaN(y) -> NaN
          [] IsInf(x) /\ IsInf(y) -> NaN
          [] IsInf(x) -> InfOfSign(FSign(x) * (IF FSign(y) < 0 THEN -1 ELSE 1))
          [] IsInf(y) -> I2F(0)
          [] FSign(y) = 0 -> IF FSign(x) = 0 THEN NaN ELSE InfOfSign(FSign(x))
          [] OTHER -> FMul(x, FInv(y)))

\* x < y and x <= y of Go: false when either side is NaN.
FLess(a, b) ==
    Bind2(a, b, LAMBDA x, y :
        /\ ~IsNaN(x)
        /\ ~IsNaN(y)
        /\ x # y
        /\ CASE x.cls = "ninf" -> TRUE
             [] x.cls = "pinf" -> FALSE
             [] y.cls = "pinf" -> TRUE
             [] y.cls = "ninf" -> FALSE
             [] OTHER -> Bind(FSub(x, y), LAMBDA z : FSign(z) < 0))

FLeq(a, b) ==
    Bind2(a, b, LAMBDA x, y :
        ~IsNaN(x) /\ ~IsNaN(y) /\ (x = y \/ FLess(x, y)))


FAbs(a) == Bind(a, LAMBDA x : IF FSign(x) < 0 THEN FNeg(x) ELSE x)

\* x < 10^(-k) for a finite x >= 0, by k multiplications by ten; the numbers
\* stay below ten, so no machine integer overflows.
RECURSIVE BelowPow10(_, _)
BelowPow10(a, k) ==
    Bind(a, LAMBDA x :
        IF k = 0 THEN FLess(x, I2F(1))
        ELSE IF ~FLess(x, I2F(1)) THEN FALSE
        ELSE BelowPow10(FMul(x, I2F(10)), k - 1))

----------------------------------------------------------------------------
(* complex128, math/cmplx *)

Cx(re, im) == [re |-> re, im |-> im]

\* complex(val, 0)
CxOfReal(x) == Cx(x, I2F(0))

CxInt(a, b) == Cx(I2F(a), I2F(b))

CAdd(a, b) ==
    Bind2(a, b, LAMBDA x, y : Cx(FAdd(x.re, y.re), FAdd(x.im, y.im)))

CSub(a, b) ==
    Bind2(a, b, LAMBDA x, y : Cx(FSub(x.re, y.re), FSub(x.im, y.im)))

CMul(a, b) ==
    Bind2(a, b, LAMBDA x, y :
        Cx(FSub(FMul(x.re, y.re), FMul(x.im, y.im)),
           FAdd(FMul(x.re, y.im), FMul(x.im, y.re))))

\* x / y = x * conj(y) / |y|^2
CDiv(a, b) ==
    Bind2(a, b, LAMBDA x, y :
        Bind(FAdd(FMul(y.re, y.re), FMul(y.im, y.im)), LAMBDA n2 :
            Cx(FDiv(FAdd(FMul(x.re, y.re), FMul(x.im, y.im)), n2),
               FDiv(FSub(FMul(x.im, y.re), FMul(x.re, y.im)), n2))))

\* cmplx.IsInf: either part is an infinity.
CIsInf(x) == IsInf(x.re) \/ IsInf(x.im)

\* cmplx.IsNaN: either part is NaN and neither is an infinity.
CIsNaN(x) == ~CIsInf(x) /\ (IsNaN(x.re) \/ IsNaN(x.im))

\* cmplx.Abs(x) = sqrt(re^2 + im^2), kept as the number under the root:
\* [sqrtOf |-> s] stands for sqrt(s), and sqrt is one-to-one on s >= 0.
CAbs(a) ==
    Bind(a, LAMBDA x :
        [sqrtOf |-> IF CIsInf(x) THEN PInf
                    ELSE FAdd(FMul(x.re, x.re), FMul(x.im, x.im))])

\* The magnitude of the real number r >= 0, in the form CAbs returns.
MagOf(r) == [sqrtOf |-> FMul(r, r)]

\* m < 10^(-k) for a magnitude m:  sqrt(s) < 10^(-k)  iff  s < 10^(-2k).
MagBelowPow10(a, k) ==
    Bind(a, LAMBDA m :
        IF IsFinite(m.sqrtOf) THEN BelowPow10(m.sqrtOf, 2 * k) ELSE FALSE)

\* cmplx.Phase(x) = atan2(im, re), kept as the direction of (re, im): the
\* point where the ray from 0 through x meets |u| + |v| = 1, which is
\* one-to-one on angles; atan2(0, 0) = 0 is the direction (1, 0).
CPhase(a) ==
    Bind(a, LAMBDA x :
        Bind(FAdd(FAbs(x.re), FAbs(x.im)), LAMBDA s :
            IF IsFinite(s) /\ FSign(s) = 0 THEN [u |-> I2F(1), v |-> I2F(0)]
            ELSE [u |-> FDiv(x.re, s), v |-> FDiv(x.im, s)]))

\* The phase 0 radians, in the form CPhase returns.
PhaseZero == [u |-> I2F(1), v |-> I2F(0)]

\* cos and sin of m/12 of a turn.
Cos12(m) ==
    CASE m = 0 -> Fin(1, 0, 1)
      [] m = 1 -> Fin(0, 1, 2)
      [] m = 2 -> Fin(1, 0, 2)
      [] m = 3 -> Fin(0, 0, 1)
      [] m = 4 -> Fin(-1, 0, 2)
      [] m = 5 -> Fin(0, -1, 2)
      [] m = 6 -> Fin(-1, 0, 1)
      [] m = 7 -> Fin(0, -1, 2)
      [] m = 8 -> Fin(-1, 0, 2)
      [] m = 9 -> Fin(0, 0, 1)
      [] m = 10 -> Fin(1, 0, 2)
      [] m = 11 -> Fin(0, 1, 2)

Sin12(m) == Cos12((m + 9) % 12)

\* An angle is kept in turns: the float t stands for 2*pi*t radians.
\* Angle(k, n) is -2 * math.Pi * float64(k) / float64(n).
Angle(k, n) == FDiv(I2F(-k), I2F(n))

\* cmplx.Exp(complex(0, angle)) = cos(angle) + i sin(angle), for an angle
\* that is a whole number of twelfths of a turn.
CExpI(a) ==
    Bind(a, LAMBDA angle :
        Bind(IF 12 % angle.d = 0 THEN (angle.p * (12 \div angle.d)) % 12
             ELSE -1,
             LAMBDA m : Cx(Cos12(m), Sin12(m))))

----------------------------------------------------------------------------
(* pkg/config: errors *)

\* An error value.  kind is the type or the sentinel; field, msg and index
\* are those of a ValidationError (index: the %d of its message, -1 when it
\* has none); inField is the field of the ValidationError whose text a
\* VoltageSignal/CurrentSignal error carries as its message; ops are the
\* operations of the ProcessingErrors wrapped around it, outermost first.
MkErr(kind, field, inField, msg, index) ==
    [kind |-> kind, field |-> field, inField |-> inField, msg |-> msg,
     index |-> index, ops |-> <<>>]

NoErr == MkErr("nil", "", "", "", -1)

ErrInvalidSignalLength == MkErr("ErrInvalidSignalLength", "", "", "", -1)

ErrInvalidSampleRate == MkErr("ErrInvalidSampleRate", "", "", "", -1)

ErrMismatchedSignalLength == MkErr("ErrMismatchedSignalLength", "", "", "", -1)

ErrMismatchedSampleRate == MkErr("ErrMismatchedSampleRate", "", "", "", -1)

ErrEmptyFrequencies == MkErr("ErrEmptyFrequencies", "", "", "", -1)

NewValidationError(field, msg, index) ==
    MkErr("ValidationError", field, "", msg, index)

\* NewValidationError(field, err.Error()) for a ValidationError err.
NewValidationErrorOf(field, e) ==
    MkErr("ValidationError", field, e.field, e.msg, e.index)

NewProcessingError(operation, cause) ==
    [cause EXCEPT !.ops = <<operation>> \o @]

\* fmt.Errorf("invalid angle at ..."), the cause of a computation error.
AngleError(index) == MkErr("errorString", "", "", "invalid angle", index)

IsErr(e) == e.kind # "nil"

----------------------------------------------------------------------------
(* pkg/signal: data model *)

\* time.Time is kept in milliseconds after the zero time; IsZero() is 0.
ZeroTime == 0

MkSignal(ts, values, rate) ==
    [Timestamp |-> ts, Values |-> values, SampleRate |-> rate]

\* A ComplexSignal stamped one millisecond after ts (the time of processing)
\* rather than with ts.
MkComplexSignalStampedLater(ts, values, freqs) ==
    [Timestamp |-> IF ts = ZeroTime THEN ZeroTime ELSE ts + 1,
     Values |-> values,
     Frequencies |-> freqs]

MkComplexSignal(ts, values, freqs) ==
    [Timestamp |-> ts, Values |-> values, Frequencies |-> freqs]

MkImpedanceData(ts, imp, freqs, mag, phase) ==
    [Timestamp |-> ts, Impedance |-> imp, Frequencies |-> freqs,
     Magnitude |-> mag, Phase |-> phase]

\* signal.Signal{}, signal.ComplexSignal{} and signal.ImpedanceData{}
EmptySignal == MkSignal(ZeroTime, <<>>, I2F(0))

EmptyComplexSignal == MkComplexSignal(ZeroTime, <<>>, <<>>)

EmptyImpedanceData == MkImpedanceData(ZeroTime, <<>>, <<>>, <<>>, <<>>)

\* The first position of s (from 1) whose element satisfies P, 0 if none.
FirstIndex(s, P(_)) ==
    IF \E i \in 1..Len(s) : P(s[i])
    THEN CHOOSE i \in 1..Len(s) : P(s[i]) /\ \A j \in 1..(i - 1) : ~P(s[j])
    ELSE 0

\* The sequence a function on 1..n stands for, with every element computed.
AsSeq(f) == f \o <<>>

Take(s, k) == SubSeq(s, 1, k)

\* CalculateMagnitudePhase with the arguments of atan2 exchanged.
CalculateMagnitudePhaseSwappedAtan(z) ==
    [magnitude |-> AsSeq([i \in 1..Len(z.Impedance) |-> CAbs(z.Impedance[i])]),
     phase |-> AsSeq([i \in 1..Len(z.Impedance) |->
                        CPhase(Cx(z.Impedance[i].im, z.Impedance[i].re))])]

CalculateMagnitudePhase(z) ==
    [magnitude |-> AsSeq([i \in 1..Len(z.Impedance) |-> CAbs(z.Impedance[i])]),
     phase |-> AsSeq([i \in 1..Len(z.Impedance) |-> CPhase(z.Impedance[i])])]

----------------------------------------------------------------------------
(* pkg/signal: validator *)

FBad(x) == IsNaN(x) \/ IsInf(x)

CBad(x) == CIsNaN(x) \/ CIsInf(x)

\* ValidateSignal with the timestamp tested before the sample rate.
ValidateSignalTimestampFirst(signal) ==
    LET bad == FirstIndex(signal.Values, FBad)
    IN  IF Len(signal.Values) = 0
        THEN NewValidationError("Values", "signal values cannot be empty", -1)
        ELSE IF signal.Timestamp = ZeroTime
        THEN NewValidationError("Timestamp", "timestamp cannot be zero", -1)
        ELSE IF FLeq(signal.SampleRate, I2F(0))
        THEN NewValidationError("SampleRate",
                                "sample rate must be greater than 0", -1)
        ELSE IF bad # 0
        THEN IF IsNaN(signal.Values[bad])
             THEN NewValidationError("Values", "NaN value found", bad - 1)
             ELSE NewValidationError("Values", "infinite value found",
                                     bad - 1)
        ELSE NoErr

ValidateSignal(signal) ==
    LET bad == FirstIndex(signal.Values, FBad)
    IN  IF Len(signal.Values) = 0
        THEN NewValidationError("Values", "signal values cannot be empty", -1)
        ELSE IF FLeq(signal.SampleRate, I2F(0))
        THEN NewValidationError("SampleRate",
                                "sample rate must be greater than 0", -1)
        ELSE IF signal.Timestamp = ZeroTime
        THEN NewValidationError("Timestamp", "timestamp cannot be zero", -1)
        ELSE IF bad # 0
        THEN IF IsNaN(signal.Values[bad])
             THEN NewValidationError("Values", "NaN value found", bad - 1)
             ELSE NewValidationError("Values", "infinite value found",
                                     bad - 1)
        ELSE NoErr

ValidateComplexSignal(signal) ==
    LET badV == FirstIndex(signal.Values, CBad)
        badF == FirstIndex(signal.Frequencies, FBad)
    IN  IF Len(signal.Values) = 0
        THEN NewValidationError("Values",
                                "complex signal values cannot be empty", -1)
        ELSE IF Len(signal.Frequencies) = 0
        THEN NewValidationError("Frequencies", "frequencies cannot be empty",
                                -1)
        ELSE IF Len(signal.Values) # Len(signal.Frequencies)
        THEN NewValidationError("Length",
                 "values and frequencies must have the same length", -1)
        ELSE IF signal.Timestamp = ZeroTime
        THEN NewValidationError("Timestamp", "timestamp cannot be zero", -1)
        ELSE IF badV # 0
        THEN IF CIsNaN(signal.Values[badV])
             THEN NewValidationError("Values", "NaN complex value found",
                                     badV - 1)
             ELSE NewValidationError("Values", "infinite complex value found",
                                     badV - 1)
        ELSE IF badF # 0
        THEN IF IsNaN(signal.Frequencies[badF])
             THEN NewValidationError("Frequencies", "NaN frequency found",
                                     badF - 1)
             ELSE NewValidationError("Frequencies", "infinite frequency found",
                                     badF - 1)
        ELSE NoErr

FNegative(x) == FLess(x, I2F(0))

\* ValidatePositiveFrequencySignal rejecting a zero bin as well (freq <= 0).
ValidatePositiveFrequencySignalStrict(signal) ==
    LET e == ValidateComplexSignal(signal)
        neg == FirstIndex(signal.Frequencies, LAMBDA x : FLeq(x, I2F(0)))
    IN  IF IsErr(e) THEN e
        ELSE IF neg # 0
        THEN NewValidationError("Frequencies", "negative frequency found",
                                neg - 1)
        ELSE NoErr

ValidatePositiveFrequencySignal(signal) ==
    LET e == ValidateComplexSignal(signal)
        neg == FirstIndex(signal.Frequencies, FNegative)
    IN  IF IsErr(e) THEN e
        ELSE IF neg # 0
        THEN NewValidationError("Frequencies", "negative frequency found",
                                neg - 1)
        ELSE NoErr

\* config.ValidateFrequencies: one loop, three tests on each frequency.
FrequencyRejected(x, allowNegative) ==
    IsNaN(x) \/ IsInf(x) \/ (~allowNegative /\ FNegative(x))

ValidateFrequencies(frequencies, allowNegative) ==
    LET bad == FirstIndex(frequencies,
                          LAMBDA x : FrequencyRejected(x, allowNegative))
    IN  IF Len(frequencies) = 0 THEN ErrEmptyFrequencies
        ELSE IF bad = 0 THEN NoErr
        ELSE IF IsNaN(frequencies[bad])
        THEN NewValidationError("Frequencies", "NaN frequency found", bad - 1)
        ELSE IF IsInf(frequencies[bad])
        THEN NewValidationError("Frequencies", "infinite frequency found",
                                bad - 1)
        ELSE NewValidationError("Frequencies", "negative frequency found",
                                bad - 1)

ValidateImpedanceData(data) ==
    LET bad == FirstIndex(data.Impedance, CBad)
    IN  IF Len(data.Impedance) = 0
        THEN NewValidationError("Impedance",
                                "impedance values cannot be empty", -1)
        ELSE IF Len(data.Frequencies) = 0
        THEN NewValidationError("Frequencies", "frequencies cannot be empty",
                                -1)
        ELSE IF Len(data.Impedance) # Len(data.Frequencies)
        THEN NewValidationError("Length",
                 "impedance and frequencies must have the same length", -1)
        ELSE IF Len(data.Magnitude) > 0
                /\ Len(data.Magnitude) # Len(data.Impedance)
        THEN NewValidationError("Magnitude",
                 "magnitude length must match impedance length", -1)
        ELSE IF Len(data.Phase) > 0 /\ Len(data.Phase) # Len(data.Impedance)
        THEN NewValidationError("Phase",
                 "phase length must match impedance length", -1)
        ELSE IF data.Timestamp = ZeroTime
        THEN NewValidationError("Timestamp", "timestamp cannot be zero", -1)
        ELSE IF bad # 0
        THEN IF CIsNaN(data.Impedance[bad])
             THEN NewValidationError("Impedance", "NaN impedance value found",
                                     bad - 1)
             ELSE NewValidationError("Impedance",
                                     "infinite impedance value found", bad - 1)
        ELSE NoErr

\* math.Abs(timeDiff.Seconds()) > 0.1, in milliseconds
TimestampToleranceMs == 100

\* ValidateSignalsMatch rejecting a timestamp difference of exactly the
\* tolerance (>= in place of >).
ValidateSignalsMatchStrictTolerance(voltageSignal, currentSignal) ==
    IF Len(voltageSignal.Values) # Len(currentSignal.Values)
    THEN ErrMismatchedSignalLength
    ELSE IF voltageSignal.SampleRate # currentSignal.SampleRate
            \/ IsNaN(voltageSignal.SampleRate)
    THEN ErrMismatchedSampleRate
    ELSE IF Abs(voltageSignal.Timestamp - currentSignal.Timestamp)
               >= TimestampToleranceMs
    THEN NewValidationError("Timestamp",
             "voltage and current signals have significantly different timestamps",
             -1)
    ELSE NoErr

\* ValidateSignalsMatch without its length comparison.
ValidateSignalsMatchIgnoringLength(voltageSignal, currentSignal) ==
    IF voltageSignal.SampleRate # currentSignal.SampleRate
       \/ IsNaN(voltageSignal.SampleRate)
    THEN ErrMismatchedSampleRate
    ELSE IF Abs(voltageSignal.Timestamp - currentSignal.Timestamp)
               > TimestampToleranceMs
    THEN NewValidationError("Timestamp",
             "voltage and current signals have significantly different timestamps",
             -1)
    ELSE NoErr

ValidateSignalsMatch(voltageSignal, currentSignal) ==
    IF Len(voltageSignal.Values) # Len(currentSignal.Values)
    THEN ErrMismatchedSignalLength
    ELSE IF voltageSignal.SampleRate # currentSignal.SampleRate
            \/ IsNaN(voltageSignal.SampleRate)
    THEN ErrMismatchedSampleRate
    ELSE IF Abs(voltageSignal.Timestamp - currentSignal.Timestamp)
               > TimestampToleranceMs
    THEN NewValidationError("Timestamp",
             "voltage and current signals have significantly different timestamps",
             -1)
    ELSE NoErr

----------------------------------------------------------------------------
(* pkg/fft: processor.  A Go (value, error) pair is [res, err]. *)

Ret(res, e) == [res |-> res, err |-> e]

\* Whether the twiddle angle is rejected: math.IsNaN(angle) || math.IsInf(angle, 0)
AngleBad(angle) == IsNaN(angle) \/ IsInf(angle)

\* dft: result[k] = sum over j = 0..n-1, in that order, of
\* x[j] * exp(-2 pi i k j / n), starting from complex(0, 0).
\* The sum of dft with its first term (j = 0) left out.
RECURSIVE DftSumSkippingFirst(_, _, _)
DftSumSkippingFirst(x, k, j) ==
    IF j <= 1 THEN CxInt(0, 0)
    ELSE CAdd(DftSumSkippingFirst(x, k, j - 1),
              CMul(x[j], CExpI(Angle(k * (j - 1), Len(x)))))

RECURSIVE DftSum(_, _, _)
DftSum(x, k, j) ==
    IF j = 0 THEN CxInt(0, 0)
    ELSE CAdd(DftSum(x, k, j - 1),
              CMul(x[j], CExpI(Angle(k * (j - 1), Len(x)))))

dft(x) ==
    LET n == Len(x)
        bad == {kj \in (0..(n - 1)) \X (0..(n - 1)) :
                    AngleBad(Angle(kj[1] * kj[2], n))}
    IN  IF n <= 0 THEN Ret(<<>>, ErrInvalidSignalLength)
        ELSE IF bad # {}
        THEN LET k == CHOOSE k \in 0..(n - 1) :
                          /\ \E j \in 0..(n - 1) : <<k, j>> \in bad
                          /\ \A k2 \in 0..(k - 1), j \in 0..(n - 1) :
                                 <<k2, j>> \notin bad
             IN  Ret(<<>>, NewProcessingError("DFT computation", AngleError(k)))
        ELSE Ret(AsSeq([k \in 1..n |-> DftSum(x, k - 1, n)]), NoErr)

\* Butterfly with the second half added like the first (E[k] + w^k O[k]).
ButterflyAddingBoth(evenFFT, oddFFT, n) ==
    LET h == n \div 2
        t == AsSeq([k \in 1..h |-> CMul(CExpI(Angle(k - 1, n)), oddFFT[k])])
    IN  Ret(AsSeq([i \in 1..n |->
                     IF i <= h THEN CAdd(evenFFT[i], t[i])
                     ELSE CAdd(evenFFT[i - h], t[i - h])]),
            NoErr)

\* The radix-2 combination of the transforms of the two halves.
Butterfly(evenFFT, oddFFT, n) ==
    LET h == n \div 2
        bad == {k \in 0..(h - 1) : AngleBad(Angle(k, n))}
    IN  IF bad # {}
        THEN Ret(<<>>, NewProcessingError("FFT computation",
                           AngleError(CHOOSE k \in bad :
                                          \A k2 \in bad : k <= k2)))
        ELSE Bind(AsSeq([k \in 1..h |->
                           CMul(CExpI(Angle(k - 1, n)), oddFFT[k])]),
                  LAMBDA t :
                      Ret(AsSeq([i \in 1..n |->
                                   IF i <= h THEN CAdd(evenFFT[i], t[i])
                                   ELSE CSub(evenFFT[i - h], t[i - h])]),
                          NoErr))

RECURSIVE computeFFT(_)
computeFFT(x0) ==
    Bind(x0, LAMBDA x :
        LET n == Len(x)
            h == n \div 2
        IN  IF n <= 0 THEN Ret(<<>>, ErrInvalidSignalLength)
            ELSE IF n <= 1 THEN Ret(x, NoErr)
            ELSE IF n % 2 # 0 THEN dft(x)
            ELSE Bind(computeFFT(AsSeq([i \in 1..h |-> x[2 * i - 1]])),
                      LAMBDA evenFFT :
                 IF IsErr(evenFFT.err) THEN Ret(<<>>, evenFFT.err)
                 ELSE Bind(computeFFT(AsSeq([i \in 1..h |-> x[2 * i]])),
                           LAMBDA oddFFT :
                      IF IsErr(oddFFT.err) THEN Ret(<<>>, oddFFT.err)
                      ELSE Butterfly(evenFFT.res, oddFFT.res, n))))

\* The length of even and of odd, two shorter than x instead of half of it.
HalfLenLessTwo(n) == n - 2

\* The length of the slices even and odd that computeFFT makes of an x of
\* length n: make([]complex128, n/2).
HalfLen(n) == n \div 2

\* The calls of computeFFT that a call on a sequence of length n, itself
\* nested depth deep, gives rise to, in the order they are made and this
\* call first: none below it for n <= 1 or an odd n (dft does not call
\* back), and otherwise those of the two halves.
RECURSIVE computeFFTCalls(_, _)
computeFFTCalls(n, depth) ==
    IF n <= 0 \/ n <= 1 \/ n % 2 # 0
    THEN <<[len |-> n, depth |-> depth]>>
    ELSE Bind(computeFFTCalls(HalfLen(n), depth + 1), LAMBDA half :
             <<[len |-> n, depth |-> depth]>> \o half \o half)

\* FrequencyBin with the bin at n/2 counted as positive (i <= n/2).
FrequencyBinNyquistPositive(i, n, sampleRate) ==
    IF i <= n \div 2
    THEN FDiv(FMul(I2F(i), sampleRate), I2F(n))
    ELSE FDiv(FMul(I2F(i - n), sampleRate), I2F(n))

\* FrequencyBin without the negative half (i * sampleRate / n throughout).
FrequencyBinUnshifted(i, n, sampleRate) ==
    FDiv(FMul(I2F(i), sampleRate), I2F(n))

\* One frequency bin of generateFrequencies, for the index i from 0.
FrequencyBin(i, n, sampleRate) ==
    IF i < n \div 2
    THEN FDiv(FMul(I2F(i), sampleRate), I2F(n))
    ELSE FDiv(FMul(I2F(i - n), sampleRate), I2F(n))

generateFrequencies(n, sampleRate) ==
    IF n <= 0 THEN Ret(<<>>, ErrInvalidSignalLength)
    ELSE IF FLeq(sampleRate, I2F(0)) THEN Ret(<<>>, ErrInvalidSampleRate)
    ELSE Ret(AsSeq([i \in 1..n |-> FrequencyBin(i - 1, n, sampleRate)]),
             NoErr)

ProcessSignal(sig0) ==
    Bind(sig0, LAMBDA sig :
    Bind(ValidateSignal(sig), LAMBDA verr :
    IF IsErr(verr)
    THEN Ret(EmptyComplexSignal, NewProcessingError("signal validation", verr))
    ELSE IF Len(sig.Values) = 0
    THEN Ret(EmptyComplexSignal,
             NewProcessingError("FFT processing", ErrInvalidSignalLength))
    ELSE
    Bind(computeFFT(AsSeq([i \in 1..Len(sig.Values) |->
                             CxOfReal(sig.Values[i])])), LAMBDA fftResult :
    IF IsErr(fftResult.err)
    THEN Ret(EmptyComplexSignal,
             NewProcessingError("FFT computation", fftResult.err))
    ELSE
    Bind(generateFrequencies(Len(sig.Values), sig.SampleRate),
         LAMBDA frequencies :
    IF IsErr(frequencies.err)
    THEN Ret(EmptyComplexSignal,
             NewProcessingError("frequency generation", frequencies.err))
    ELSE
    Bind(MkComplexSignal(sig.Timestamp, fftResult.res, frequencies.res),
         LAMBDA result :
    Bind(ValidateComplexSignal(result), LAMBDA rerr :
    IF IsErr(rerr)
    THEN Ret(EmptyComplexSignal, NewProcessingError("result validation", rerr))
    ELSE Ret(result, NoErr)))))))

\* halfN rounded up instead of down.
HalfNRoundedUp(n) == (n + 1) \div 2

\* halfN of GetPositiveFrequencies
HalfN(n) == IF n \div 2 = 0 THEN 1 ELSE n \div 2

\* GetPositiveFrequencies returning the half spectrum it built together with
\* the error of its result validation.
GetPositiveFrequenciesKeepingResult(complexSignal0) ==
    Bind(complexSignal0, LAMBDA complexSignal :
    Bind(ValidateComplexSignal(complexSignal), LAMBDA verr :
    IF IsErr(verr)
    THEN Ret(EmptyComplexSignal, NewProcessingError("input validation", verr))
    ELSE IF Len(complexSignal.Values) = 0
    THEN Ret(EmptyComplexSignal, ErrInvalidSignalLength)
    ELSE
    Bind(HalfN(Len(complexSignal.Values)), LAMBDA halfN :
    Bind(MkComplexSignal(complexSignal.Timestamp,
                         Take(complexSignal.Values, halfN),
                         Take(complexSignal.Frequencies, halfN)),
         LAMBDA result :
    Bind(ValidatePositiveFrequencySignal(result), LAMBDA rerr :
    IF IsErr(rerr)
    THEN Ret(result, NewProcessingError("result validation", rerr))
    ELSE Ret(result, NoErr))))))

GetPositiveFrequencies(complexSignal0) ==
    Bind(complexSignal0, LAMBDA complexSignal :
    Bind(ValidateComplexSignal(complexSignal), LAMBDA verr :
    IF IsErr(verr)
    THEN Ret(EmptyComplexSignal, NewProcessingError("input validation", verr))
    ELSE IF Len(complexSignal.Values) = 0
    THEN Ret(EmptyComplexSignal, ErrInvalidSignalLength)
    ELSE
    Bind(HalfN(Len(complexSignal.Values)), LAMBDA halfN :
    Bind(MkComplexSignal(complexSignal.Timestamp,
                         Take(complexSignal.Values, halfN),
                         Take(complexSignal.Frequencies, halfN)),
         LAMBDA result :
    Bind(ValidatePositiveFrequencySignal(result), LAMBDA rerr :
    IF IsErr(rerr)
    THEN Ret(EmptyComplexSignal, NewProcessingError("result validation", rerr))
    ELSE Ret(result, NoErr))))))

----------------------------------------------------------------------------
(* pkg/impedance: calculator *)

ValidateSignals(voltageSignal, currentSignal) ==
    LET ev == ValidateSignal(voltageSignal)
        ec == ValidateSignal(currentSignal)
    IN  IF IsErr(ev) THEN NewValidationErrorOf("VoltageSignal", ev)
        ELSE IF IsErr(ec) THEN NewValidationErrorOf("CurrentSignal", ec)
        ELSE ValidateSignalsMatch(voltageSignal, currentSignal)

\* The near-zero threshold of the current magnitude is 1e-10 = 10^(-NearZeroExp).
NearZeroExp == 10

\* ImpedanceBin with the quotient inverted (I / U).
ImpedanceBinInverted(u, i) ==
    IF MagBelowPow10(CAbs(i), NearZeroExp) THEN CxInt(0, 0) ELSE CDiv(i, u)

\* ImpedanceBin reusing the first bin of the data returned last, when there
\* is one.
ImpedanceBinReused(u, i) ==
    IF outImp.Impedance # <<>> THEN outImp.Impedance[1]
    ELSE IF MagBelowPow10(CAbs(i), NearZeroExp) THEN CxInt(0, 0)
    ELSE CDiv(u, i)

\* One impedance bin: 0 under the near-zero guard, U / I otherwise.
ImpedanceBin(u, i) ==
    IF MagBelowPow10(CAbs(i), NearZeroExp) THEN CxInt(0, 0) ELSE CDiv(u, i)

\* A result of CalculateImpedance with the calls it made to the processor
\* and the validator, in order.
RetC(res, e, made) == [res |-> res, err |-> e, calls |-> made]

\* The calls CalculateImpedance has made once it has made its k-th kind of
\* call.
CallsMade(k) ==
    SubSeq(<<"ValidateSignals", "ProcessSignal(voltage)",
             "ProcessSignal(current)", "GetPositiveFrequencies(voltage)",
             "GetPositiveFrequencies(current)", "CalculateMagnitudePhase",
             "ValidateImpedanceData">>, 1, k)

CalculateImpedance(voltageSignal0, currentSignal0) ==
    Bind2(voltageSignal0, currentSignal0, LAMBDA voltageSignal, currentSignal :
    Bind(ValidateSignals(voltageSignal, currentSignal), LAMBDA verr :
    IF IsErr(verr)
    THEN RetC(EmptyImpedanceData,
              NewProcessingError("signal validation", verr), CallsMade(1))
    ELSE
    Bind(ProcessSignal(voltageSignal), LAMBDA voltageFFT :
    IF IsErr(voltageFFT.err)
    THEN RetC(EmptyImpedanceData,
              NewProcessingError("voltage FFT processing", voltageFFT.err),
              CallsMade(2))
    ELSE
    Bind(ProcessSignal(currentSignal), LAMBDA currentFFT :
    IF IsErr(currentFFT.err)
    THEN RetC(EmptyImpedanceData,
              NewProcessingError("current FFT processing", currentFFT.err),
              CallsMade(3))
    ELSE
    Bind(GetPositiveFrequencies(voltageFFT.res), LAMBDA voltagePos :
    IF IsErr(voltagePos.err)
    THEN RetC(EmptyImpedanceData,
              NewProcessingError("voltage positive frequencies",
                                 voltagePos.err), CallsMade(4))
    ELSE
    Bind(GetPositiveFrequencies(currentFFT.res), LAMBDA currentPos :
    IF IsErr(currentPos.err)
    THEN RetC(EmptyImpedanceData,
              NewProcessingError("current positive frequencies",
                                 currentPos.err), CallsMade(5))
    ELSE IF Len(voltagePos.res.Values) # Len(currentPos.res.Values)
    THEN RetC(EmptyImpedanceData,
              NewProcessingError("impedance calculation",
                                 ErrMismatchedSignalLength), CallsMade(5))
    ELSE
    Bind(AsSeq([i \in 1..Len(voltagePos.res.Values) |->
                  ImpedanceBin(voltagePos.res.Values[i],
                               currentPos.res.Values[i])]),
         LAMBDA impedance :
    Bind(FirstIndex(impedance, CBad), LAMBDA bad :
    IF bad # 0
    THEN RetC(EmptyImpedanceData,
              NewProcessingError("impedance calculation",
                  NewValidationError("Impedance",
                      "invalid impedance value at frequency index", bad - 1)),
              CallsMade(5))
    ELSE
    Bind(MkImpedanceData(voltageSignal.Timestamp, impedance,
                         voltagePos.res.Frequencies, <<>>, <<>>),
         LAMBDA data0 :
    Bind(CalculateMagnitudePhase(data0), LAMBDA mp :
    Bind([data0 EXCEPT !.Magnitude = mp.magnitude, !.Phase = mp.phase],
         LAMBDA impedanceData :
    Bind(ValidateImpedanceData(impedanceData), LAMBDA derr :
    IF IsErr(derr)
    THEN RetC(EmptyImpedanceData,
              NewProcessingError("impedance data validation", derr),
              CallsMade(7))
    ELSE RetC(impedanceData, NoErr, CallsMade(7))))))))))))))

\* signal.ImpedancePoint
MkImpedancePoint(frequency, z) ==
    [Frequency |-> frequency, Real |-> z.re, Imag |-> z.im]

ProcessEISMeasurement(voltageSignal0, currentSignal0) ==
    Bind2(voltageSignal0, currentSignal0, LAMBDA voltageSignal, currentSignal :
    Bind(ValidateSignals(voltageSignal, currentSignal), LAMBDA verr :
    IF IsErr(verr)
    THEN Ret(<<>>, NewProcessingError("signal validation", verr))
    ELSE
    Bind(CalculateImpedance(voltageSignal, currentSignal),
         LAMBDA impedanceData :
    IF IsErr(impedanceData.err)
    THEN Ret(<<>>, NewProcessingError("impedance calculation",
                                      impedanceData.err))
    ELSE Ret(AsSeq([i \in 1..Len(impedanceData.res.Impedance) |->
                      MkImpedancePoint(impedanceData.res.Frequencies[i],
                                       impedanceData.res.Impedance[i])]),
             NoErr))))

----------------------------------------------------------------------------
(* The inputs the operations are applied to *)

\* Finite samples are the integers -MaxSample..MaxSample.
MaxSample == 2

\* The validator is applied to every sample sequence of at most this length.
MaxValidatorLen == 3

\* GetPositiveFrequencies is applied to spectra of at most this length.
MaxSpectrumLen == 5

\* generateFrequencies is applied to every n up to this.
MaxBins == 7

\* The transform lengths: every twiddle factor is a 12th root of unity.
Lengths == {1, 2, 3, 4, 6}

SampleInts == (-MaxSample)..MaxSample

\* The sequences over S of length at most n.
SeqsUpTo(S, n) == UNION {[1..k -> S] : k \in 0..n}

\* [a, 0, ..., 0], [a, a, ..., a], [a, 2a, ..., na], [0, a, 0, ..., 0] and
\* [a, -a, a, ...] of length n.
Impulse(a, n) ==
    AsSeq([i \in 1..n |-> IF i = 1 THEN I2F(a) ELSE I2F(0)])

Constant(a, n) ==
    AsSeq([i \in 1..n |-> I2F(a)])

Ramp(a, n) ==
    AsSeq([i \in 1..n |-> I2F(a * i)])

Delayed(a, n) ==
    AsSeq([i \in 1..n |-> IF i = 2 THEN I2F(a) ELSE I2F(0)])

Alternating(a, n) ==
    AsSeq([i \in 1..n |-> IF i % 2 = 1 THEN I2F(a) ELSE I2F(-a)])

Shaped(n) ==
    UNION {{Impulse(a, n), Constant(a, n), Ramp(a, n), Delayed(a, n),
            Alternating(a, n)} : a \in SampleInts}

ValidatorRates == {NaN, NInf, I2F(-1), I2F(0), Rat(1, 2), I2F(4), PInf}

\* The signals the validator is applied to, with at most maxLen samples.
ValidatorSignals(maxLen) ==
    {MkSignal(ts, values, rate) :
        ts \in {ZeroTime, 1000},
        values \in SeqsUpTo({I2F(0), I2F(1), NaN, PInf, NInf}, maxLen),
        rate \in ValidatorRates}

TransformRates == {NaN, I2F(0), Rat(1, 2), I2F(1), I2F(3), I2F(4), PInf}

\* The signals the transform is applied to, of the given lengths.
TransformSignals(lengths) ==
    {MkSignal(ts, values, rate) :
        ts \in {ZeroTime, 1000, 1100},
        values \in {<<>>, <<NaN>>} \cup UNION {Shaped(n) : n \in lengths},
        rate \in TransformRates}

\* The spectra GetPositiveFrequencies is applied to: n distinct finite
\* values with the frequency sequence freqs of any length; and, when freqs
\* has length n, also a zero timestamp, or a NaN or an infinite part at any
\* one position.
DistinctValues(n) == AsSeq([i \in 1..n |-> CxInt(i, -i)])

BadValues(n) ==
    {[DistinctValues(n) EXCEPT ![k] = Cx(I2F(k), NaN)] : k \in 1..n}
    \cup {[DistinctValues(n) EXCEPT ![k] = Cx(PInf, I2F(k))] : k \in 1..n}

SpectrumFrequencies(maxLen) ==
    SeqsUpTo({I2F(-1), I2F(0), I2F(1), NaN}, maxLen)

Spectra(n, freqs) ==
    {MkComplexSignal(1000, DistinctValues(n), freqs)}
    \cup IF n # Len(freqs) THEN {}
         ELSE {MkComplexSignal(ZeroTime, DistinctValues(n), freqs)}
              \cup {MkComplexSignal(1100, values, freqs) :
                        values \in BadValues(n)}

\* ValidateImpedanceData is applied to data of at most this many points.
MaxDataLen == 2

\* The ImpedanceData ValidateImpedanceData is applied to: every impedance
\* sequence over a finite, a NaN and an infinite value, with well-formed
\* frequencies, magnitude and phase of the same length, one of which is then
\* replaced by any sequence over finite, NaN and infinite entries.
DataImpedances(maxLen) ==
    SeqsUpTo({CxInt(1, 0), Cx(NaN, I2F(0)), Cx(I2F(0), NInf)}, maxLen)

DataFloats(maxLen) == SeqsUpTo({I2F(1), NaN, PInf}, maxLen)

DataMagnitudes(maxLen) ==
    SeqsUpTo({MagOf(I2F(1)), [sqrtOf |-> NaN], [sqrtOf |-> PInf]}, maxLen)

DataPhases(maxLen) ==
    SeqsUpTo({PhaseZero, [u |-> NaN, v |-> NaN]}, maxLen)

DataOver(imp, maxLen) ==
    LET n == Len(imp)
        base == MkImpedanceData(1000, imp, Constant(1, n),
                                AsSeq([i \in 1..n |-> MagOf(I2F(1))]),
                                AsSeq([i \in 1..n |-> PhaseZero]))
    IN  {base, [base EXCEPT !.Timestamp = ZeroTime]}
        \cup {[base EXCEPT !.Frequencies = f] : f \in DataFloats(maxLen)}
        \cup {[base EXCEPT !.Magnitude = m] : m \in DataMagnitudes(maxLen)}
        \cup {[base EXCEPT !.Phase = ph] : ph \in DataPhases(maxLen)}

\* The sample sequences of the voltage/current pairs, of the given lengths.
PairValues(lengths) ==
    {<<>>, <<NaN>>, <<I2F(1), PInf>>}
    \cup UNION {{Impulse(a, n) : a \in SampleInts} \cup {Ramp(1, n)}
                \cup {Constant(1, n)} : n \in lengths}

\* <<voltage rate, current rate, voltage timestamp, current timestamp>>
PairMeta ==
    {<<I2F(4), I2F(4), 1000, 1000>>, <<I2F(4), I2F(4), 1000, 1100>>,
     <<I2F(4), I2F(4), 1100, 1000>>, <<I2F(4), I2F(4), 1000, 1101>>,
     <<I2F(4), I2F(4), 1101, 1000>>, <<I2F(4), I2F(3), 1000, 1000>>,
     <<I2F(4), I2F(4), ZeroTime, 1000>>, <<I2F(4), I2F(4), 1000, ZeroTime>>,
     <<I2F(0), I2F(4), 1000, 1000>>, <<I2F(4), I2F(-1), 1000, 1000>>,
     <<NaN, NaN, 1000, 1000>>, <<PInf, PInf, 1000, 1000>>,
     <<Rat(1, 2), Rat(1, 2), 1100, 1100>>}

\* The operations invoked repeatedly, and the record of no invocation yet.
CoreOps == {"ProcessSignal", "GetPositiveFrequencies", "CalculateImpedance"}

NoneSeen == [o \in CoreOps |-> {}]

\* A tick's signal is held by the number of its tick; the zero Signal a
\* receive from a closed and drained channel yields is number 0.
ZeroItem == 0

NoItem == -1

\* No receiver, processor loop or direct EIS loop has been started.
PipeIdle ==
    /\ vq = <<>>
    /\ cq = <<>>
    /\ tick = 0
    /\ ppc = "idle"
    /\ cpc = "idle"
    /\ mpc = "idle"
    /\ held = NoItem
    /\ handed = <<>>
    /\ cycle = "none"
    /\ cancelled = FALSE
    /\ vClosed = FALSE
    /\ cClosed = FALSE
    /\ running = FALSE

EISIdle ==
    /\ spectraCount = 0
    /\ spectrumCounter = 0
    /\ batch = <<>>
    /\ iterations = <<>>
    /\ epc = "idle"

\* No file receiver was made.
FileIdle ==
    /\ signals = <<>>
    /\ currentIndex = 0
    /\ offered = <<>>
    /\ fret = "none"

\* A send that was not made.
NoSend == [stage |-> "none", status |-> 0]

\* No file was loaded.
LoadIdle ==
    /\ records = <<>>
    /\ csvRate = I2F(0)
    /\ loaded = <<>>
    /\ loadErr = NoErr
    /\ lpc = "idle"

\* No sender was made.
NetIdle ==
    /\ targetURL = ""
    /\ healthy = TRUE
    /\ sends = 0
    /\ requests = 0
    /\ lastSend = NoSend
    /\ sendErr = "nil"

\* No operation of the core has been applied.
InitResults ==
    /\ log = <<>>
    /\ seen = NoneSeen
    /\ op = "none"
    /\ argN = 0
    /\ outSig = EmptyComplexSignal
    /\ outImp = EmptyImpedanceData
    /\ outFreq = <<>>
    /\ outMeas = <<>>
    /\ err = NoErr
    /\ calls = <<>>

CoreIdle ==
    /\ inV = EmptySignal
    /\ inC = EmptySignal
    /\ inS = EmptyComplexSignal
    /\ inD = EmptyImpedanceData
    /\ InitResults

InitOutputs ==
    /\ PipeIdle
    /\ EISIdle
    /\ FileIdle
    /\ NetIdle
    /\ LoadIdle
    /\ log = <<>>
    /\ seen = NoneSeen
    /\ op = "none"
    /\ argN = 0
    /\ outSig = EmptyComplexSignal
    /\ outImp = EmptyImpedanceData
    /\ outFreq = <<>>
    /\ outMeas = <<>>
    /\ err = NoErr
    /\ calls = <<>>

InitValidator ==
    /\ inV \in ValidatorSignals(MaxValidatorLen)
    /\ inC = EmptySignal
    /\ inS = EmptyComplexSignal
    /\ inD = EmptyImpedanceData
    /\ InitOutputs

InitTransform ==
    /\ inV \in TransformSignals(Lengths)
    /\ inC = EmptySignal
    /\ inS = EmptyComplexSignal
    /\ inD = EmptyImpedanceData
    /\ InitOutputs

InitHalf ==
    /\ inV = EmptySignal
    /\ inC = EmptySignal
    /\ \E n \in 0..MaxSpectrumLen,
             freqs \in SpectrumFrequencies(MaxSpectrumLen) :
          inS \in Spectra(n, freqs)
    /\ inD = EmptyImpedanceData
    /\ InitOutputs

InitData ==
    /\ inV = EmptySignal
    /\ inC = EmptySignal
    /\ inS = EmptyComplexSignal
    /\ \E imp \in DataImpedances(MaxDataLen) : inD \in DataOver(imp, MaxDataLen)
    /\ InitOutputs

InitPair ==
    /\ \E m \in PairMeta, vv \in PairValues(Lengths),
             cv \in PairValues(Lengths) :
          /\ inV = MkSignal(m[3], vv, m[1])
          /\ inC = MkSignal(m[4], cv, m[2])
    /\ inS = EmptyComplexSignal
    /\ inD = EmptyImpedanceData
    /\ InitOutputs

----------------------------------------------------------------------------
(* The operations *)

\* An operation is applied to the inputs and returns.
ReturnedWith(name, n, sig, imp, freq, meas, e, made) ==
    /\ op' = name
    /\ argN' = n
    /\ outSig' = sig
    /\ outImp' = imp
    /\ outFreq' = freq
    /\ outMeas' = meas
    /\ err' = e
    /\ calls' = made
    /\ UNCHANGED <<inV, inC, inS, inD, log, seen, pipeVars, eisVars, fileVars, netVars, loadVars>>

Returned(name, n, sig, imp, freq, e, made) ==
    ReturnedWith(name, n, sig, imp, freq, <<>>, e, made)

DoValidateSignal ==
    /\ op = "none"
    /\ \E e \in {ValidateSignal(inV)} :
        Returned("ValidateSignal", 0, EmptyComplexSignal, EmptyImpedanceData,
                 <<>>, e, <<>>)

DoGenerateFrequencies ==
    /\ op = "none"
    /\ \E n \in 0..MaxBins :
        \E r \in {generateFrequencies(n, inV.SampleRate)} :
            Returned("generateFrequencies", n, EmptyComplexSignal,
                     EmptyImpedanceData, r.res, r.err, <<>>)

DoProcessSignal ==
    /\ op = "none"
    /\ \E r \in {ProcessSignal(inV)} :
        Returned("ProcessSignal", 0, r.res, EmptyImpedanceData, <<>>, r.err,
                 <<>>)

DoGetPositiveFrequencies ==
    /\ op = "none"
    /\ \E r \in {GetPositiveFrequencies(inS)} :
        Returned("GetPositiveFrequencies", 0, r.res, EmptyImpedanceData,
                 <<>>, r.err, <<>>)

DoValidateComplexSignal ==
    /\ op = "none"
    /\ \E e \in {ValidateComplexSignal(inS)} :
        Returned("ValidateComplexSignal", 0, EmptyComplexSignal,
                 EmptyImpedanceData, <<>>, e, <<>>)

DoValidatePositiveFrequencySignal ==
    /\ op = "none"
    /\ \E e \in {ValidatePositiveFrequencySignal(inS)} :
        Returned("ValidatePositiveFrequencySignal", 0, EmptyComplexSignal,
                 EmptyImpedanceData, <<>>, e, <<>>)

\* config.ValidateFrequencies on the frequencies of the spectrum; argN is 1
\* when negative frequencies are allowed.
DoValidateFrequencies ==
    /\ op = "none"
    /\ \E allowNegative \in BOOLEAN :
        \E e \in {ValidateFrequencies(inS.Frequencies, allowNegative)} :
            Returned("ValidateFrequencies", IF allowNegative THEN 1 ELSE 0,
                     EmptyComplexSignal, EmptyImpedanceData, <<>>, e, <<>>)

DoValidateImpedanceData ==
    /\ op = "none"
    /\ \E e \in {ValidateImpedanceData(inD)} :
        Returned("ValidateImpedanceData", 0, EmptyComplexSignal,
                 EmptyImpedanceData, <<>>, e, <<>>)

DoValidateSignals ==
    /\ op = "none"
    /\ \E e \in {ValidateSignals(inV, inC)} :
        Returned("ValidateSignals", 0, EmptyComplexSignal, EmptyImpedanceData,
                 <<>>, e, <<>>)

DoCalculateImpedance ==
    /\ op = "none"
    /\ \E r \in {CalculateImpedance(inV, inC)} :
        Returned("CalculateImpedance", 0, EmptyComplexSignal, r.res, <<>>,
                 r.err, r.calls)

NextValidator == DoValidateSignal

NextTransform == DoProcessSignal \/ DoGenerateFrequencies

NextHalf ==
    \/ DoGetPositiveFrequencies
    \/ DoValidateComplexSignal
    \/ DoValidatePositiveFrequencySignal
    \/ DoValidateFrequencies

DoProcessEISMeasurement ==
    /\ op = "none"
    /\ \E r \in {ProcessEISMeasurement(inV, inC)} :
        ReturnedWith("ProcessEISMeasurement", 0, EmptyComplexSignal,
                     EmptyImpedanceData, <<>>, r.res, r.err, <<>>)

NextData == DoValidateImpedanceData

NextPair ==
    \/ DoValidateSignals
    \/ DoCalculateImpedance

\* Repeated invocations.  A DefaultProcessor holds a validator and a
\* DefaultCalculator a processor and a validator; DefaultValidator is
\* struct{} and no method assigns a field, so an instance has no state that
\* an invocation could read or write, and an invocation on one instance is
\* the same step as on another.  At most MaxInvocations are made.
MaxInvocations == 3

RepeatSpectra ==
    Spectra(3, <<I2F(0), I2F(1), I2F(-1)>>) \cup Spectra(2, <<I2F(0)>>)

InitRepeat ==
    /\ \E m \in {<<I2F(4), I2F(4), 1000, 1100>>, <<I2F(4), I2F(3), 1000, 1000>>},
             vv \in {Ramp(1, 4), Impulse(2, 4), Ramp(1, 3), <<NaN>>},
             cv \in {Impulse(1, 4), Constant(1, 4), Impulse(0, 4)} :
          /\ inV = MkSignal(m[3], vv, m[1])
          /\ inC = MkSignal(m[4], cv, m[2])
    /\ inS \in RepeatSpectra
    /\ inD = EmptyImpedanceData
    /\ InitOutputs

\* The operation name is invoked again on the unchanged inputs and returns
\* the spectrum sig or the data imp with the error e.
Invoked(name, sig, imp, e, made) ==
    /\ Len(log) < MaxInvocations
    /\ log' = Append(log, name)
    /\ seen' = [seen EXCEPT
                   ![name] = @ \cup {[sig |-> sig, imp |-> imp, err |-> e]}]
    /\ op' = name
    /\ outSig' = sig
    /\ outImp' = imp
    /\ err' = e
    /\ calls' = made
    /\ UNCHANGED <<inV, inC, inS, inD, argN, outFreq, outMeas, pipeVars,
                   eisVars, fileVars, netVars, loadVars>>

InvokeProcessSignal ==
    \E r \in {ProcessSignal(inV)} :
        Invoked("ProcessSignal", r.res, EmptyImpedanceData, r.err, <<>>)

InvokeGetPositiveFrequencies ==
    \E r \in {GetPositiveFrequencies(inS)} :
        Invoked("GetPositiveFrequencies", r.res, EmptyImpedanceData, r.err,
                <<>>)

InvokeCalculateImpedance ==
    \E r \in {CalculateImpedance(inV, inC)} :
        Invoked("CalculateImpedance", EmptyComplexSignal, r.res, r.err,
                r.calls)

NextRepeat ==
    \/ InvokeProcessSignal
    \/ InvokeGetPositiveFrequencies
    \/ InvokeCalculateImpedance

\* The four operations of the core that return a result with an error, each
\* applied to a pair of signals and to a spectrum.
MaxCoreSpectrumLen == 3

CoreLengths == {1, 3, 4}

CoreMeta ==
    {<<I2F(4), I2F(4), 1000, 1000>>, <<I2F(4), I2F(4), 1000, 1101>>,
     <<I2F(4), I2F(3), 1000, 1000>>, <<I2F(4), I2F(4), ZeroTime, 1000>>,
     <<PInf, PInf, 1000, 1000>>}

InitCore ==
    /\ inD = EmptyImpedanceData
    /\ InitOutputs
    /\ \/ /\ \E m \in CoreMeta, vv \in PairValues(CoreLengths),
                   cv \in PairValues(CoreLengths) :
                /\ inV = MkSignal(m[3], vv, m[1])
                /\ inC = MkSignal(m[4], cv, m[2])
          /\ inS = EmptyComplexSignal
       \/ /\ inV = EmptySignal
          /\ inC = EmptySignal
          /\ \E n \in 0..MaxCoreSpectrumLen,
                   freqs \in SpectrumFrequencies(MaxCoreSpectrumLen) :
                inS \in Spectra(n, freqs)

NextCore ==
    \/ DoProcessSignal
    \/ DoGetPositiveFrequencies
    \/ DoCalculateImpedance
    \/ DoProcessEISMeasurement

\* computeFFT alone.  Its values are computed for sequences of the lengths
\* whose twiddle factors are exact here, over the Gaussian integers with
\* parts in -MaxGauss..MaxGauss; its recursion is followed for every length
\* up to MaxFFTLen.
MaxGauss == 1

MaxFFTLen == 16

GaussInts(m) == {CxInt(a, b) : a \in (-m)..m, b \in (-m)..m}

\* The sequences of length n with at most two entries other than 0, and one
\* with all entries different.
FFTInputs(n, m) ==
    {DistinctValues(n)}
    \cup {AsSeq([j \in 1..n |-> IF j = a THEN u
                                ELSE IF j = b THEN v ELSE CxInt(0, 0)]) :
             a \in 1..n, b \in 1..n, u \in GaussInts(m), v \in GaussInts(m)}

InitFFT ==
    /\ inV = EmptySignal
    /\ inC = EmptySignal
    /\ \E n \in Lengths :
          \E x \in FFTInputs(n, MaxGauss) :
              inS = MkComplexSignal(ZeroTime, x, <<>>)
    /\ inD = EmptyImpedanceData
    /\ InitOutputs

DoComputeFFT ==
    /\ op = "none"
    /\ \E r \in {computeFFT(inS.Values)} :
        Returned("computeFFT", Len(inS.Values),
                 MkComplexSignal(ZeroTime, r.res, <<>>), EmptyImpedanceData,
                 <<>>, r.err, computeFFTCalls(Len(inS.Values), 0))

\* computeFFT on a sequence of length n, for what does not depend on the
\* values: the calls made and the error for no sample.
DoComputeFFTOfLength ==
    /\ op = "none"
    /\ \E n \in 0..MaxFFTLen :
        Returned("computeFFTOfLength", n, EmptyComplexSignal,
                 EmptyImpedanceData, <<>>,
                 IF n <= 0 THEN ErrInvalidSignalLength ELSE NoErr,
                 computeFFTCalls(n, 0))

NextFFT ==
    \/ DoComputeFFT
    \/ DoComputeFFTOfLength

-----------------------------------------------------------------------------
(* The receiver, the processor loop and main *)

\* Both channels are made with this capacity.
QueueCap == 10

\* The producer takes at most this many ticks from its ticker.
MaxTicks == 12

\* Enqueue putting the new signal in front of the buffered ones.
EnqueueInFront(q, item) == IF Len(q) < QueueCap THEN <<item>> \o q ELSE q

\* A non-blocking send (a select with a default case) on an open channel:
\* the signal is buffered behind the others when there is room and dropped
\* otherwise.
Enqueue(q, item) == IF Len(q) < QueueCap THEN Append(q, item) ELSE q

\* How a cycle ends once the calculator was handed the voltage of tick i and
\* the current of tick j.  The zero Signal fails validation.  The signals of
\* one tick were validated by the producer and are stamped moments apart, so
\* the result is computed and put out.  Signals of different ticks are
\* stamped a ticker period apart, unless the ticks were taken late and in
\* close succession, so the calculator normally rejects the pair.
CycleOutcomes(i, j) ==
    IF i = ZeroItem \/ j = ZeroItem THEN {"failed"}
    ELSE IF i = j THEN {"output"}
    ELSE {"failed", "output"}

\* An unrecovered panic ends the process, and with it every goroutine.
Alive == ppc # "panicked"

InitPipe ==
    /\ CoreIdle
    /\ EISIdle
    /\ FileIdle
    /\ NetIdle
    /\ LoadIdle
    /\ vq = <<>>
    /\ cq = <<>>
    /\ tick = 0
    /\ ppc = "start"
    /\ cpc = "select"
    /\ mpc = "running"
    /\ held = NoItem
    /\ handed = <<>>
    /\ cycle = "none"
    /\ cancelled = FALSE
    /\ vClosed = FALSE
    /\ cClosed = FALSE
    /\ running = FALSE

\* StartReceiving up to its loop: the configuration main has validated is
\* validated again, the ticker is made and dr.running set.
ProducerStart ==
    /\ Alive
    /\ ppc = "start"
    /\ running' = TRUE
    /\ ppc' = "loop"
    /\ UNCHANGED <<vq, cq, tick, cpc, mpc, held, handed, cycle, cancelled,
                   vClosed, cClosed, coreVars, eisVars, fileVars, netVars, loadVars>>

\* The loop condition reads dr.running, which Stop writes from main's
\* goroutine with no synchronisation: once Stop has written it the read
\* yields the value written or the one the producer had stored.
ProducerLoop ==
    /\ Alive
    /\ ppc = "loop"
    /\ \E observed \in {running} \cup
                       (IF mpc \in {"closeV", "closeC", "wait", "stopped"}
                        THEN {TRUE} ELSE {}) :
          ppc' = IF observed THEN "select" ELSE "returned"
    /\ UNCHANGED <<vq, cq, tick, cpc, mpc, held, handed, cycle, cancelled,
                   vClosed, cClosed, running, coreVars, eisVars, fileVars, netVars, loadVars>>

\* case <-ctx.Done()
ProducerCancelled ==
    /\ Alive
    /\ ppc = "select"
    /\ cancelled
    /\ running' = FALSE
    /\ ppc' = "returned"
    /\ UNCHANGED <<vq, cq, tick, cpc, mpc, held, handed, cycle, cancelled,
                   vClosed, cClosed, coreVars, eisVars, fileVars, netVars, loadVars>>

\* case <-ticker.C: both signals are generated and validated.
ProducerTick ==
    /\ Alive
    /\ ppc = "select"
    /\ tick < MaxTicks
    /\ tick' = tick + 1
    /\ ppc' = "sendV"
    /\ UNCHANGED <<vq, cq, cpc, mpc, held, handed, cycle, cancelled, vClosed,
                   cClosed, running, coreVars, eisVars, fileVars, netVars, loadVars>>

\* select { case dr.voltageChannel <- voltageSignal: default: }.  A send on
\* a closed channel panics, in a select as elsewhere.
ProducerSendVoltage ==
    /\ Alive
    /\ ppc = "sendV"
    /\ IF vClosed
       THEN ppc' = "panicked" /\ vq' = vq
       ELSE ppc' = "sendC" /\ vq' = Enqueue(vq, tick)
    /\ UNCHANGED <<cq, tick, cpc, mpc, held, handed, cycle, cancelled,
                   vClosed, cClosed, running, coreVars, eisVars, fileVars, netVars, loadVars>>

\* select { case dr.currentChannel <- currentSignal: default: }
ProducerSendCurrent ==
    /\ Alive
    /\ ppc = "sendC"
    /\ IF cClosed
       THEN ppc' = "panicked" /\ cq' = cq
       ELSE ppc' = "loop" /\ cq' = Enqueue(cq, tick)
    /\ UNCHANGED <<vq, tick, cpc, mpc, held, handed, cycle, cancelled,
                   vClosed, cClosed, running, coreVars, eisVars, fileVars, netVars, loadVars>>

\* processSignals, case <-ctx.Done()
ConsumerCancelled ==
    /\ Alive
    /\ cpc = "select"
    /\ cancelled
    /\ cpc' = "returned"
    /\ UNCHANGED <<vq, cq, tick, ppc, mpc, held, handed, cycle, cancelled,
                   vClosed, cClosed, running, coreVars, eisVars, fileVars, netVars, loadVars>>

\* case voltageSignal := <-dataReceiver.GetVoltageChannel(): the oldest
\* buffered signal, or the zero Signal once the channel is closed and drained.
ConsumerTakeVoltage ==
    /\ Alive
    /\ cpc = "select"
    /\ vq # <<>> \/ vClosed
    /\ held' = IF vq # <<>> THEN Head(vq) ELSE ZeroItem
    /\ vq' = IF vq # <<>> THEN Tail(vq) ELSE vq
    /\ cpc' = "gotV"
    /\ UNCHANGED <<cq, tick, ppc, mpc, handed, cycle, cancelled, vClosed,
                   cClosed, running, coreVars, eisVars, fileVars, netVars, loadVars>>

\* case currentSignal := <-dataReceiver.GetCurrentChannel(): the pair is
\* handed to the calculator and the result put out, or the error logged.
ConsumerTakeCurrent ==
    /\ Alive
    /\ cpc = "gotV"
    /\ cq # <<>> \/ cClosed
    /\ \E j \in {IF cq # <<>> THEN Head(cq) ELSE ZeroItem} :
          /\ handed' = <<held, j>>
          /\ cycle' \in CycleOutcomes(held, j)
    /\ cq' = IF cq # <<>> THEN Tail(cq) ELSE cq
    /\ held' = NoItem
    /\ cpc' = "select"
    /\ UNCHANGED <<vq, tick, ppc, mpc, cancelled, vClosed, cClosed, running,
                   coreVars, eisVars, fileVars, netVars, loadVars>>

\* default: no current signal is ready; the voltage signal goes out of scope.
ConsumerSkip ==
    /\ Alive
    /\ cpc = "gotV"
    /\ cq = <<>>
    /\ ~cClosed
    /\ cycle' = "skipped"
    /\ held' = NoItem
    /\ cpc' = "select"
    /\ UNCHANGED <<vq, cq, tick, ppc, mpc, handed, cancelled, vClosed,
                   cClosed, running, coreVars, eisVars, fileVars, netVars, loadVars>>

\* main: <-signalChan, then cancel()
MainCancel ==
    /\ Alive
    /\ mpc = "running"
    /\ cancelled' = TRUE
    /\ mpc' = "stop"
    /\ UNCHANGED <<vq, cq, tick, ppc, cpc, held, handed, cycle, vClosed,
                   cClosed, running, coreVars, eisVars, fileVars, netVars, loadVars>>

\* Stop: dr.running = false
MainStopRunning ==
    /\ Alive
    /\ mpc = "stop"
    /\ running' = FALSE
    /\ mpc' = "closeV"
    /\ UNCHANGED <<vq, cq, tick, ppc, cpc, held, handed, cycle, cancelled,
                   vClosed, cClosed, coreVars, eisVars, fileVars, netVars, loadVars>>

\* Stop: close(dr.voltageChannel)
MainCloseVoltage ==
    /\ Alive
    /\ mpc = "closeV"
    /\ vClosed' = TRUE
    /\ mpc' = "closeC"
    /\ UNCHANGED <<vq, cq, tick, ppc, cpc, held, handed, cycle, cancelled,
                   cClosed, running, coreVars, eisVars, fileVars, netVars, loadVars>>

\* Stop: close(dr.currentChannel)
MainCloseCurrent ==
    /\ Alive
    /\ mpc = "closeC"
    /\ cClosed' = TRUE
    /\ mpc' = "wait"
    /\ UNCHANGED <<vq, cq, tick, ppc, cpc, held, handed, cycle, cancelled,
                   vClosed, running, coreVars, eisVars, fileVars, netVars, loadVars>>

\* wg.Wait() returns once both goroutines have; main logs and returns.
MainWait ==
    /\ Alive
    /\ mpc = "wait"
    /\ ppc = "returned"
    /\ cpc = "returned"
    /\ mpc' = "stopped"
    /\ UNCHANGED <<vq, cq, tick, ppc, cpc, held, handed, cycle, cancelled,
                   vClosed, cClosed, running, coreVars, eisVars, fileVars, netVars, loadVars>>

NextPipe ==
    \/ ProducerStart
    \/ ProducerLoop
    \/ ProducerCancelled
    \/ ProducerTick
    \/ ProducerSendVoltage
    \/ ProducerSendCurrent
    \/ ConsumerCancelled
    \/ ConsumerTakeVoltage
    \/ ConsumerTakeCurrent
    \/ ConsumerSkip
    \/ MainCancel
    \/ MainStopRunning
    \/ MainCloseVoltage
    \/ MainCloseCurrent
    \/ MainWait

SpecPipe == InitPipe /\ [][NextPipe]_vars

-----------------------------------------------------------------------------
(* Direct EIS mode *)

\* A batch holds at most this many spectra.
BatchSize == 10

\* The generator counter at which the loop stops in any case.
SpectraLimit == 100

\* The -spectra flag is at most this.
MaxSpectra == 101

\* The batch loop from its i-th round on: the generator's counter is the
\* iteration of the next spectrum, and generating one increments it.
RECURSIVE GenerateBatch(_, _, _, _)
GenerateBatch(i, counter, count, acc) ==
    IF i >= BatchSize \/ counter >= count
    THEN [batch |-> acc, counter |-> counter]
    ELSE GenerateBatch(i + 1, counter + 1, count, Append(acc, counter))

InitEIS ==
    /\ CoreIdle
    /\ PipeIdle
    /\ FileIdle
    /\ NetIdle
    /\ LoadIdle
    /\ spectraCount \in 0..MaxSpectra
    /\ spectrumCounter = 0
    /\ batch = <<>>
    /\ iterations = <<>>
    /\ epc = "select"

\* case <-ticker.C: a batch is generated and written to the file; the loop
\* returns when the batch is empty or the counter has reached SpectraLimit.
EISTick ==
    /\ epc = "select"
    /\ \E g \in {GenerateBatch(0, spectrumCounter, spectraCount, <<>>)} :
          /\ batch' = g.batch
          /\ spectrumCounter' = g.counter
          /\ iterations' = iterations \o g.batch
          /\ epc' = IF Len(g.batch) = 0 \/ g.counter >= SpectraLimit
                    THEN "stopped"
                    ELSE "select"
    /\ UNCHANGED <<spectraCount, coreVars, pipeVars, fileVars, netVars, loadVars>>

\* case <-signalChan.  The case <-ctx.Done() is never ready: cancel is only
\* called where the loop returns.
EISShutdown ==
    /\ epc = "select"
    /\ epc' = "interrupted"
    /\ UNCHANGED <<spectraCount, spectrumCounter, batch, iterations, coreVars,
                   pipeVars, fileVars, netVars, loadVars>>

NextEIS ==
    \/ EISTick
    \/ EISShutdown

SpecEIS == InitEIS /\ [][NextEIS]_vars

-----------------------------------------------------------------------------
(* The file receiver, with the processor loop and main *)

\* The file receiver holds at most this many pairs of signals.
MaxPairs == 11

\* The loop of StartReceiving goes on while the index is <= the number of
\* pairs.
MoreToSendInclusive(index, total) == index <= total

\* fr.currentIndex < len(fr.voltageSignals)
MoreToSend(index, total) == index < total

\* GetProgress without the percentage.
GetProgress == [current |-> currentIndex, total |-> Len(signals)]

\* The pairs a receiver holds: none, or pairs that all pass the validator,
\* or pairs of which the first has a voltage signal or the last a current
\* signal that does not.  (The loader validates what NewFileReceiver
\* stores; the fields can hold any signals.)
LoadedPairs(maxPairs) ==
    LET sizes == {0, 1, 2, maxPairs}
        Valid(n) == AsSeq([i \in 1..n |-> "valid"])
    IN  {Valid(n) : n \in sizes}
        \cup {[Valid(n) EXCEPT ![1] = "invalid voltage"] : n \in sizes \ {0}}
        \cup {[Valid(n) EXCEPT ![n] = "invalid current"] : n \in sizes \ {0}}

InitFile ==
    /\ CoreIdle
    /\ EISIdle
    /\ NetIdle
    /\ LoadIdle
    /\ signals \in LoadedPairs(MaxPairs)
    /\ currentIndex = 0
    /\ offered = <<>>
    /\ fret = "none"
    /\ vq = <<>>
    /\ cq = <<>>
    /\ tick = 0
    /\ ppc = "start"
    /\ cpc = "select"
    /\ mpc = "running"
    /\ held = NoItem
    /\ handed = <<>>
    /\ cycle = "none"
    /\ cancelled = FALSE
    /\ vClosed = FALSE
    /\ cClosed = FALSE
    /\ running = FALSE

\* StartReceiving up to its loop.
FileStart ==
    /\ Alive
    /\ ppc = "start"
    /\ IF Len(signals) = 0
       THEN /\ ppc' = "returned"
            /\ fret' = "no signals loaded from files"
            /\ running' = running
       ELSE /\ ppc' = "loop"
            /\ fret' = fret
            /\ running' = TRUE
    /\ UNCHANGED <<vq, cq, tick, cpc, mpc, held, handed, cycle, cancelled,
                   vClosed, cClosed, signals, currentIndex, offered,
                   coreVars, eisVars, netVars, loadVars>>

\* for fr.running && fr.currentIndex < len(fr.voltageSignals), and the
\* return nil after the loop.  fr.running is read as dr.running is.
FileLoop ==
    /\ Alive
    /\ ppc = "loop"
    /\ \E observed \in {running} \cup
                       (IF mpc \in {"closeV", "closeC", "wait", "stopped"}
                        THEN {TRUE} ELSE {}) :
          IF observed /\ MoreToSend(currentIndex, Len(signals))
          THEN ppc' = "select" /\ fret' = fret
          ELSE ppc' = "returned" /\ fret' = "nil"
    /\ UNCHANGED <<vq, cq, tick, cpc, mpc, held, handed, cycle, cancelled,
                   vClosed, cClosed, running, signals, currentIndex, offered,
                   coreVars, eisVars, netVars, loadVars>>

\* case <-ctx.Done()
FileCancelled ==
    /\ Alive
    /\ ppc = "select"
    /\ cancelled
    /\ running' = FALSE
    /\ ppc' = "returned"
    /\ fret' = "context canceled"
    /\ UNCHANGED <<vq, cq, tick, cpc, mpc, held, handed, cycle, cancelled,
                   vClosed, cClosed, signals, currentIndex, offered,
                   coreVars, eisVars, netVars, loadVars>>

\* case <-ticker.C, up to the sends: the index is tested again and the pair
\* at the index validated; a pair that fails is passed over.
FileTick ==
    /\ Alive
    /\ ppc = "select"
    /\ tick' = tick + 1
    /\ IF currentIndex >= Len(signals)
       THEN /\ running' = FALSE
            /\ ppc' = "returned"
            /\ fret' = "nil"
            /\ currentIndex' = currentIndex
       ELSE IF signals[currentIndex + 1] # "valid"
       THEN /\ running' = running
            /\ ppc' = "loop"
            /\ fret' = fret
            /\ currentIndex' = currentIndex + 1
       ELSE /\ running' = running
            /\ ppc' = "sendV"
            /\ fret' = fret
            /\ currentIndex' = currentIndex
    /\ UNCHANGED <<vq, cq, cpc, mpc, held, handed, cycle, cancelled, vClosed,
                   cClosed, signals, offered, coreVars, eisVars, netVars, loadVars>>

\* select { case fr.voltageChannel <- voltageSignal: default: }.  The pair
\* at index i is buffered as i + 1, 0 being the zero Signal.
FileSendVoltage ==
    /\ Alive
    /\ ppc = "sendV"
    /\ offered' = Append(offered, currentIndex)
    /\ IF vClosed
       THEN ppc' = "panicked" /\ vq' = vq
       ELSE ppc' = "sendC" /\ vq' = Enqueue(vq, currentIndex + 1)
    /\ UNCHANGED <<cq, tick, cpc, mpc, held, handed, cycle, cancelled,
                   vClosed, cClosed, running, signals, currentIndex, fret,
                   coreVars, eisVars, netVars, loadVars>>

\* select { case fr.currentChannel <- currentSignal: default: }, then
\* fr.currentIndex++
FileSendCurrent ==
    /\ Alive
    /\ ppc = "sendC"
    /\ IF cClosed
       THEN ppc' = "panicked" /\ cq' = cq /\ currentIndex' = currentIndex
       ELSE /\ ppc' = "loop"
            /\ cq' = Enqueue(cq, currentIndex + 1)
            /\ currentIndex' = currentIndex + 1
    /\ UNCHANGED <<vq, tick, cpc, mpc, held, handed, cycle, cancelled,
                   vClosed, cClosed, running, signals, offered, fret,
                   coreVars, eisVars, netVars, loadVars>>

NextFile ==
    \/ FileStart
    \/ FileLoop
    \/ FileCancelled
    \/ FileTick
    \/ FileSendVoltage
    \/ FileSendCurrent
    \/ ConsumerCancelled
    \/ ConsumerTakeVoltage
    \/ ConsumerTakeCurrent
    \/ ConsumerSkip
    \/ MainCancel
    \/ MainStopRunning
    \/ MainCloseVoltage
    \/ MainCloseCurrent
    \/ MainWait

\* The scheduler runs the producer whenever it can take a step, and the
\* ticker of StartReceiving fires every second, so a producer waiting in its
\* select takes a tick in the end unless it is cancelled.
FairFile ==
    /\ WF_vars(FileStart)
    /\ WF_vars(FileLoop)
    /\ WF_vars(FileCancelled \/ FileTick)
    /\ WF_vars(FileSendVoltage)
    /\ WF_vars(FileSendCurrent)

SpecFile == InitFile /\ [][NextFile]_vars /\ FairFile

-----------------------------------------------------------------------------
(* pkg/signal: the CSV loader, and the limits of pkg/config *)

\* A file has at most this many data rows.
MaxRows == 5

\* The limit Config.Validate puts on the sample rate (1 MHz).
MaxSampleRate == 1000000

\* Config.Validate, for the sample rate.
ConfigAcceptsSampleRate(sampleRate) ==
    /\ ~FLeq(sampleRate, I2F(0))
    /\ ~FLess(I2F(MaxSampleRate), sampleRate)

\* int(x) for a rational x within the range of int: the fraction is cut off.
IntOf(x) ==
    IF x.p >= 0 THEN x.p \div x.d ELSE -((-x.p) \div x.d)

\* A failed parse.
ParseFailed == [ok |-> FALSE, val |-> 0]

\* time.Parse(time.RFC3339Nano, text) for the texts of the first column,
\* as milliseconds after the zero time (counted from a recent instant, as
\* the timestamps of the signals are).
ParseTime(text) ==
    CASE text = "0001-01-01T00:00:00Z" -> [ok |-> TRUE, val |-> ZeroTime]
      [] text = "2025-01-01T00:00:01Z" -> [ok |-> TRUE, val |-> 1000]
      [] text = "2025-01-01T00:00:01.1Z" -> [ok |-> TRUE, val |-> 1100]
      [] OTHER -> ParseFailed

\* strconv.ParseFloat(text, 64) for the texts of the third column.
ParseFloat(text) ==
    CASE text = "0" -> [ok |-> TRUE, val |-> I2F(0)]
      [] text = "1.5" -> [ok |-> TRUE, val |-> Rat(3, 2)]
      [] text = "-2" -> [ok |-> TRUE, val |-> I2F(-2)]
      [] text = "2e0" -> [ok |-> TRUE, val |-> I2F(2)]
      [] text = "NaN" -> [ok |-> TRUE, val |-> NaN]
      [] text = "+Inf" -> [ok |-> TRUE, val |-> PInf]
      [] OTHER -> ParseFailed

\* A record of three columns; the second is not read.
Record(timeText, valueText) == <<timeText, "0.000", valueText>>

Header == <<"timestamp", "time_offset", "value">>

\* parseSignalChunk: the first record gives the timestamp, every record a
\* value; the first text that does not parse ends it.
parseSignalChunk(chunk, sampleRate) ==
    LET time == ParseTime(chunk[1][1])
        badValue == {i \in 1..Len(chunk) : ~ParseFloat(chunk[i][3]).ok}
    IN  IF Len(chunk) = 0
        THEN Ret(EmptySignal,
                 NewValidationError("Records", "empty record chunk", -1))
        ELSE IF ~time.ok
        THEN Ret(EmptySignal,
                 NewProcessingError("timestamp parsing",
                     MkErr("errorString", "", "",
                           "invalid timestamp format in record", 0)))
        ELSE IF badValue # {}
        THEN Ret(EmptySignal,
                 NewProcessingError("value parsing",
                     MkErr("errorString", "", "", "invalid value in record",
                           (CHOOSE i \in badValue :
                                \A j \in badValue : i <= j) - 1)))
        ELSE Ret(MkSignal(time.val,
                          AsSeq([i \in 1..Len(chunk) |->
                                   ParseFloat(chunk[i][3]).val]),
                          sampleRate),
                 NoErr)

\* The loop of LoadSignalFromCSV from record i on, with the signals made so
\* far.
RECURSIVE LoadChunks(_, _, _, _, _)
LoadChunks(rows, i, samplesPerSecond, sampleRate, made) ==
    IF i >= Len(rows) THEN Ret(made, NoErr)
    ELSE LET end == IF i + samplesPerSecond > Len(rows) THEN Len(rows)
                    ELSE i + samplesPerSecond
             parsed == parseSignalChunk(SubSeq(rows, i + 1, end), sampleRate)
         IN  IF IsErr(parsed.err)
             THEN Ret(<<>>, NewProcessingError("signal parsing", parsed.err))
             ELSE IF IsErr(ValidateSignal(parsed.res))
             THEN Ret(<<>>, NewProcessingError("signal validation",
                                               ValidateSignal(parsed.res)))
             ELSE LoadChunks(rows, i + samplesPerSecond, samplesPerSecond,
                             sampleRate, Append(made, parsed.res))

\* The run-time panic of an integer division by zero.
DivideByZero == MkErr("panic", "", "", "integer divide by zero", -1)

\* LoadSignalFromCSV on the records read from the file.  The number of
\* signals is computed by a division by int(sampleRate) before the loop.
LoadSignalFromCSV(recs, sampleRate) ==
    LET samplesPerSecond == IntOf(sampleRate)
    IN  IF Len(recs) < 2
        THEN Ret(<<>>, NewValidationError("Data",
                 "CSV file must have at least header and one data row", -1))
        ELSE IF samplesPerSecond = 0 THEN Ret(<<>>, DivideByZero)
        ELSE LoadChunks(Tail(recs), 0, samplesPerSecond, sampleRate, <<>>)

\* The sample rates the loader is given: rates Config.Validate accepts.
LoaderRates == {Rat(1, 2), I2F(1), I2F(2), Rat(5, 2), I2F(3)}

\* The data rows of the files: up to maxRows rows of values that parse to
\* finite numbers, stamped with a time, and such rows with one text replaced
\* by one that does not parse or does not pass the validator.
LoaderRows(maxRows) ==
    LET Good(values) ==
            AsSeq([i \in 1..Len(values) |->
                     Record("2025-01-01T00:00:01Z", values[i])])
        Plain(n) == Good(AsSeq([i \in 1..n |-> "0"]))
    IN  {Good(values) : values \in SeqsUpTo({"1.5", "-2"}, maxRows)}
        \cup {Good(<<"2e0", "0", "1.5">>)}
        \cup UNION {{[Plain(n) EXCEPT
                          ![k] = Record("2025-01-01T00:00:01.1Z", text)] :
                        k \in 1..n, text \in {"NaN", "+Inf", "abc"}} :
                     n \in 1..maxRows}
        \cup UNION {{[Plain(n) EXCEPT ![k] = Record(text, "0")] :
                        k \in 1..n,
                        text \in {"0001-01-01T00:00:00Z", "yesterday"}} :
                     n \in 1..maxRows}

InitLoader ==
    /\ CoreIdle
    /\ PipeIdle
    /\ EISIdle
    /\ FileIdle
    /\ NetIdle
    /\ \E rows \in LoaderRows(MaxRows) : records = <<Header>> \o rows
    /\ csvRate \in LoaderRates
    /\ loaded = <<>>
    /\ loadErr = NoErr
    /\ lpc = "ready"

DoLoadSignalFromCSV ==
    /\ lpc = "ready"
    /\ \E r \in {LoadSignalFromCSV(records, csvRate)} :
          /\ loaded' = r.res
          /\ loadErr' = r.err
          /\ lpc' = IF r.err.kind = "panic" THEN "panicked" ELSE "returned"
    /\ UNCHANGED <<records, csvRate, coreVars, pipeVars, eisVars, fileVars,
                   netVars>>

NextLoader == DoLoadSignalFromCSV

SpecLoader == InitLoader /\ [][NextLoader]_vars

-----------------------------------------------------------------------------
(* pkg/network: the sender *)

\* At most this many send calls are made on a sender.
MaxSends == 3

\* The target URLs a sender is made with: none, one that parses, and one
\* that url.Parse rejects (an invalid escape), with or without "/batch".
TargetURLs == {"", "http://localhost:8080/data", "%"}

\* http.NewRequest fails when the URL does not parse.
RequestFails(url) == url = "%"

\* What the server answers.
StatusCodes == {200, 201, 202, 204, 400, 404, 500, 503}

\* Every 2xx status taken for success.
StatusIsSuccess(code) == code \div 100 = 2

\* resp.StatusCode is http.StatusOK or http.StatusAccepted.
StatusAccepted(code) == code = 200 \/ code = 202

InitSender ==
    /\ CoreIdle
    /\ PipeIdle
    /\ EISIdle
    /\ FileIdle
    /\ LoadIdle
    /\ targetURL \in TargetURLs
    /\ healthy = TRUE
    /\ sends = 0
    /\ requests = 0
    /\ lastSend = NoSend
    /\ sendErr = "nil"

\* How a send call went: the stage it got to and the status received.
SendOutcome(dataType, stage, status) ==
    [stage |-> stage, status |-> status, data |-> dataType]

\* The body the three send methods share, for the X-Data-Type they set.
\* Whether the data marshals, and what the client's request ends in (an
\* error or a response), is for the data and the network to decide.
Send(dataType) ==
    /\ sends < MaxSends
    /\ sends' = sends + 1
    /\ targetURL' = targetURL
    /\ IF targetURL = ""
       THEN /\ sendErr' = "invalid target URL"
            /\ UNCHANGED <<healthy, requests, lastSend>>
       ELSE \E marshals \in BOOLEAN, answer \in {0} \cup StatusCodes :
            IF ~marshals
            THEN /\ healthy' = FALSE
                 /\ sendErr' = "failed to marshal data to JSON"
                 /\ requests' = requests
                 /\ lastSend' = SendOutcome(dataType, "marshal", 0)
            ELSE IF RequestFails(targetURL)
            THEN /\ healthy' = FALSE
                 /\ sendErr' = "failed to create request"
                 /\ requests' = requests
                 /\ lastSend' = SendOutcome(dataType, "request", 0)
            ELSE IF answer = 0
            THEN /\ healthy' = FALSE
                 /\ sendErr' = "failed to send request"
                 /\ requests' = requests + 1
                 /\ lastSend' = SendOutcome(dataType, "transport", 0)
            ELSE IF ~StatusAccepted(answer)
            THEN /\ healthy' = FALSE
                 /\ sendErr' = "invalid HTTP response"
                 /\ requests' = requests + 1
                 /\ lastSend' = SendOutcome(dataType, "response", answer)
            ELSE /\ healthy' = TRUE
                 /\ sendErr' = "nil"
                 /\ requests' = requests + 1
                 /\ lastSend' = SendOutcome(dataType, "response", answer)
    /\ UNCHANGED <<coreVars, pipeVars, eisVars, fileVars, loadVars>>

SendEISMeasurement == Send("EIS-Measurement")

SendBatchImpedanceData == Send("Impedance-Batch")

SendImpedanceData == Send("Impedance-Data")

IsHealthy == healthy

NextSender ==
    \/ SendEISMeasurement
    \/ SendBatchImpedanceData
    \/ SendImpedanceData

SpecSender == InitSender /\ [][NextSender]_vars

\* The scheduler lets every goroutine that can take a step take one, and a
\* select chooses among its ready cases at random, so a case that is ready
\* whenever the select is reached is chosen in the end.  Nothing obliges a
\* tick, a buffered signal or the shutdown signal to be taken.
FairPipe ==
    /\ WF_vars(ProducerStart)
    /\ WF_vars(ProducerLoop)
    /\ WF_vars(ProducerSendVoltage)
    /\ WF_vars(ProducerSendCurrent)
    /\ SF_vars(ProducerCancelled)
    /\ SF_vars(ConsumerCancelled)
    /\ WF_vars(ConsumerTakeCurrent)
    /\ WF_vars(ConsumerSkip)
    /\ WF_vars(MainStopRunning)
    /\ WF_vars(MainCloseVoltage)
    /\ WF_vars(MainCloseCurrent)
    /\ WF_vars(MainWait)

SpecShutdown == InitPipe /\ [][NextPipe]_vars /\ FairPipe

SpecFFT == InitFFT /\ [][NextFFT]_vars

SpecValidator == InitValidator /\ [][NextValidator]_vars

SpecTransform == InitTransform /\ [][NextTransform]_vars

SpecHalf == InitHalf /\ [][NextHalf]_vars

SpecData == InitData /\ [][NextData]_vars

SpecRepeat == InitRepeat /\ [][NextRepeat]_vars

SpecCore == InitCore /\ [][NextCore]_vars

SpecPair == InitPair /\ [][NextPair]_vars

----------------------------------------------------------------------------
(* Properties *)

\* A signal as the specification describes a valid one: non-empty, sample
\* rate > 0, timestamp not the zero time, every sample finite.
WellFormed(sig) ==
    /\ Len(sig.Values) > 0
    /\ FLess(I2F(0), sig.SampleRate)
    /\ sig.Timestamp # ZeroTime
    /\ \A i \in 1..Len(sig.Values) : IsFinite(sig.Values[i])

Passes(sig) == ~IsErr(ValidateSignal(sig))

IsImpulse(values, a) ==
    /\ Len(values) >= 1
    /\ values = Impulse(a, Len(values))

AllZero(values) == \A i \in 1..Len(values) : values[i] = I2F(0)

MaxOneHalf(n) == IF n \div 2 > 1 THEN n \div 2 ELSE 1

MismatchedPairGiven ==
    /\ op = "CalculateImpedance"
    /\ Len(inV.Values) # Len(inC.Values)

NoTransformInvoked ==
    \A i \in 1..Len(calls) :
        calls[i] \notin {"ProcessSignal(voltage)", "ProcessSignal(current)"}

\* C1 as stated: for every pair whose sample sequences differ in length,
\* CalculateImpedance fails with the mismatched-length error and invokes no
\* ProcessSignal, whatever else is true of the two signals.
MismatchedLengthAlwaysReported ==
    MismatchedPairGiven =>
        /\ err.kind = "ErrMismatchedSignalLength"
        /\ NoTransformInvoked

\* C1, amended: for every pair whose sample sequences differ in length,
\* CalculateImpedance fails after ValidateSignals alone, with no ProcessSignal
\* invoked and the empty result; the error is the mismatched-length error
\* (wrapped as "signal validation") exactly when both signals individually
\* pass ValidateSignal, and otherwise it is the validation error of the first
\* invalid signal (VoltageSignal before CurrentSignal).
MismatchedLengthFailsBeforeTransform ==
    MismatchedPairGiven =>
        /\ IsErr(err)
        /\ calls = <<"ValidateSignals">>
        /\ NoTransformInvoked
        /\ outImp = EmptyImpedanceData
        /\ err.ops = <<"signal validation">>
        /\ (Passes(inV) /\ Passes(inC))
              <=> err.kind = "ErrMismatchedSignalLength"
        /\ ~Passes(inV)
              => err.kind = "ValidationError" /\ err.field = "VoltageSignal"
        /\ (Passes(inV) /\ ~Passes(inC))
              => err.kind = "ValidationError" /\ err.field = "CurrentSignal"

\* Two individually valid signals of lengths 4 and 3 were rejected for
\* their lengths.
MismatchedValidPairRejected ==
    /\ MismatchedPairGiven
    /\ Len(inV.Values) = 4
    /\ Len(inC.Values) = 3
    /\ Passes(inV)
    /\ Passes(inC)
    /\ err.kind = "ErrMismatchedSignalLength"

UnitImpulseAtRate4 ==
    /\ op = "ProcessSignal"
    /\ inV.Values = Impulse(1, 4)
    /\ inV.SampleRate = I2F(4)
    /\ inV.Timestamp # ZeroTime

\* C2 as stated: transforming [1,0,0,0] at sample rate 4 yields the
\* frequency bins [0, 1, 2, -1].
ImpulseBinsAsStated ==
    UnitImpulseAtRate4 =>
        /\ ~IsErr(err)
        /\ outSig.Frequencies = <<I2F(0), I2F(1), I2F(2), I2F(-1)>>

\* C2, amended: transforming [1,0,0,0] at sample rate 4 succeeds and yields
\* the frequency bins [0, 1, -2, -1], one per output index in index order
\* (index 2 = n/2 is not below n/2, so it takes the negative branch).
ImpulseBinsNyquistNegative ==
    UnitImpulseAtRate4 =>
        /\ ~IsErr(err)
        /\ outSig.Frequencies = <<I2F(0), I2F(1), I2F(-2), I2F(-1)>>

ImpulseAtRate4Transformed ==
    /\ UnitImpulseAtRate4
    /\ ~IsErr(err)
    /\ Len(outSig.Frequencies) = 4

\* C3 as stated: ValidateSignal succeeds if and only if the sample sequence
\* is non-empty, the sample rate is > 0, the timestamp is not the zero time
\* and no sample is NaN or infinite.
ValidateSignalIffWellFormed ==
    op = "ValidateSignal" => (~IsErr(err) <=> WellFormed(inV))

\* C4: a successful ProcessSignal of a signal of length n returns exactly n
\* spectrum values and n frequency bins, with the signal's timestamp.
TransformPreservesLengthAndTimestamp ==
    (op = "ProcessSignal" /\ ~IsErr(err)) =>
        /\ WellFormed(inV)
        /\ Len(outSig.Values) = Len(inV.Values)
        /\ Len(outSig.Frequencies) = Len(inV.Values)
        /\ outSig.Timestamp = inV.Timestamp

\* Signals of an odd length, of an even length that is no power of two and
\* of a power of two: here the first.
OddLengthTransformed ==
    /\ op = "ProcessSignal"
    /\ ~IsErr(err)
    /\ Len(inV.Values) = 3
    /\ Len(outSig.Values) = 3
    /\ inV.Timestamp = 1100

\* C5: for n >= 1 and a sample rate > 0, generateFrequencies succeeds with n
\* bins, and the bin of index i is i*sampleRate/n when i < n/2 (integer
\* division) and (i-n)*sampleRate/n otherwise.
FrequencyLayout ==
    (op = "generateFrequencies" /\ argN >= 1
       /\ FLess(I2F(0), inV.SampleRate)) =>
        /\ ~IsErr(err)
        /\ Len(outFreq) = argN
        /\ \A i \in 0..(argN - 1) :
              outFreq[i + 1] =
                  IF i < argN \div 2
                  THEN FDiv(FMul(I2F(i), inV.SampleRate), I2F(argN))
                  ELSE FDiv(FMul(I2F(i - argN), inV.SampleRate), I2F(argN))

FiveBinsGenerated ==
    /\ op = "generateFrequencies"
    /\ argN = 5
    /\ inV.SampleRate = I2F(4)
    /\ outFreq = <<I2F(0), Rat(4, 5), Rat(-12, 5), Rat(-8, 5), Rat(-4, 5)>>

\* C6: when GetPositiveFrequencies succeeds on a spectrum of length n >= 1,
\* the result is the first max(1, n/2) values and the first max(1, n/2)
\* frequency bins of the input, in order, with the input's timestamp; n in
\* 1..5 gives the lengths 1, 1, 1, 2, 2.  The cut is by position.
HalfSpectrumIsPrefix ==
    (op = "GetPositiveFrequencies" /\ ~IsErr(err)) =>
        /\ Len(inS.Values) >= 1
        /\ outSig.Values = SubSeq(inS.Values, 1, MaxOneHalf(Len(inS.Values)))
        /\ outSig.Frequencies =
               SubSeq(inS.Frequencies, 1, MaxOneHalf(Len(inS.Values)))
        /\ outSig.Timestamp = inS.Timestamp
        /\ Len(inS.Values) \in 1..5 =>
               Len(outSig.Values) = <<1, 1, 1, 2, 2>>[Len(inS.Values)]

\* A spectrum of length 5 was cut to 2 entries although a later bin is
\* non-negative and another later bin is negative.
HalfOfFiveTaken ==
    /\ op = "GetPositiveFrequencies"
    /\ ~IsErr(err)
    /\ Len(inS.Values) = 5
    /\ Len(outSig.Values) = 2
    /\ inS.Frequencies[3] = I2F(1)
    /\ inS.Frequencies[5] = I2F(-1)

\* C7 as stated: with an all-zero current and a valid finite voltage of the
\* same length, rate and timestamp, CalculateImpedance does not fail and
\* every impedance bin is exactly 0+0i.
ZeroCurrentGivesZeroImpedance ==
    (op = "CalculateImpedance" /\ WellFormed(inV) /\ AllZero(inC.Values)
       /\ Len(inC.Values) = Len(inV.Values)
       /\ inC.SampleRate = inV.SampleRate
       /\ inC.Timestamp = inV.Timestamp) =>
        /\ ~IsErr(err)
        /\ \A i \in 1..Len(outImp.Impedance) :
              outImp.Impedance[i] = CxInt(0, 0)

\* C8: for voltage [2,0,0,0] and current [1,0,0,0] at sample rate 4 with
\* equal (non-zero) timestamps CalculateImpedance succeeds and bin 0 has
\* impedance 2+0i, magnitude 2 and phase 0; and whenever it succeeds on
\* impulses [a,0,...,0] and [b,0,...,0] with b # 0, every returned bin is a/b.
ImpulseImpedanceIsRatio ==
    /\ (op = "CalculateImpedance" /\ inV.Values = Impulse(2, 4)
          /\ inC.Values = Impulse(1, 4) /\ inV.SampleRate = I2F(4)
          /\ inC.SampleRate = I2F(4) /\ inV.Timestamp = inC.Timestamp
          /\ inV.Timestamp # ZeroTime) =>
           /\ ~IsErr(err)
           /\ outImp.Impedance[1] = CxInt(2, 0)
           /\ outImp.Magnitude[1] = MagOf(I2F(2))
           /\ outImp.Phase[1] = PhaseZero
    /\ \A a \in SampleInts, b \in SampleInts \ {0} :
           (op = "CalculateImpedance" /\ ~IsErr(err)
              /\ IsImpulse(inV.Values, a) /\ IsImpulse(inC.Values, b)) =>
               /\ Len(outImp.Impedance) >= 1
               /\ \A i \in 1..Len(outImp.Impedance) :
                     outImp.Impedance[i] = Cx(Rat(a, b), I2F(0))

KnownImpedanceComputed ==
    /\ op = "CalculateImpedance"
    /\ ~IsErr(err)
    /\ inV.Values = Impulse(2, 4)
    /\ inC.Values = Impulse(1, 4)
    /\ inV.SampleRate = I2F(4)
    /\ outImp.Impedance = <<CxInt(2, 0), CxInt(2, 0)>>

\* C9: the transform of [1,0,0,0] (valid, finite sample rate) succeeds with
\* all 4 values equal to 1+0i; and whenever the transform of an impulse
\* [a,0,...,0] of length n succeeds, all n values equal a+0i.
ImpulseSpectrumIsFlat ==
    /\ (op = "ProcessSignal" /\ inV.Values = Impulse(1, 4)
          /\ WellFormed(inV) /\ IsFinite(inV.SampleRate)) =>
           /\ ~IsErr(err)
           /\ outSig.Values = <<CxInt(1, 0), CxInt(1, 0), CxInt(1, 0),
                                CxInt(1, 0)>>
    /\ \A a \in SampleInts :
           (op = "ProcessSignal" /\ ~IsErr(err) /\ IsImpulse(inV.Values, a))
               => outSig.Values = [i \in 1..Len(inV.Values) |-> CxInt(a, 0)]

FlatSpectrumOfSix ==
    /\ op = "ProcessSignal"
    /\ ~IsErr(err)
    /\ inV.Values = Impulse(2, 6)
    /\ Len(outSig.Values) = 6
    /\ outSig.Values[4] = CxInt(2, 0)

\* C10: every ImpedanceData CalculateImpedance returns successfully for
\* input length n has impedance, frequencies, magnitude and phase of length
\* max(1, n/2), the voltage signal's timestamp, and magnitude[i] and
\* phase[i] equal to |Z_i| and the phase of Z_i recomputed from impedance[i].
ImpedanceDataConsistent ==
    (op = "CalculateImpedance" /\ ~IsErr(err)) =>
        /\ Len(outImp.Impedance) = MaxOneHalf(Len(inV.Values))
        /\ Len(outImp.Frequencies) = MaxOneHalf(Len(inV.Values))
        /\ Len(outImp.Magnitude) = MaxOneHalf(Len(inV.Values))
        /\ Len(outImp.Phase) = MaxOneHalf(Len(inV.Values))
        /\ outImp.Timestamp = inV.Timestamp
        /\ \A i \in 1..Len(outImp.Impedance) :
              /\ outImp.Magnitude[i] = CAbs(outImp.Impedance[i])
              /\ outImp.Phase[i] = CPhase(outImp.Impedance[i])

\* A spectrum of three bins, one of them not real, returned for two signals
\* whose timestamps differ.
ThreeBinImpedanceReturned ==
    /\ op = "CalculateImpedance"
    /\ ~IsErr(err)
    /\ Len(inV.Values) = 6
    /\ Len(outImp.Impedance) = 3
    /\ inV.Timestamp # inC.Timestamp
    /\ \E i \in 1..3 : outImp.Impedance[i].im # I2F(0)

\* float64 ==: NaN equals nothing.
FEq(x, y) == ~IsNaN(x) /\ ~IsNaN(y) /\ x = y

\* C11: ValidateSignals succeeds if and only if both signals individually
\* pass ValidateSignal, the sample sequences have equal length, the sample
\* rates are equal and the timestamps differ by at most 100 ms in absolute
\* value (exactly 100 ms passes, more fails in either direction).
ValidateSignalsIffCompatible ==
    op = "ValidateSignals" =>
        (~IsErr(err) <=>
            /\ Passes(inV)
            /\ Passes(inC)
            /\ Len(inV.Values) = Len(inC.Values)
            /\ FEq(inV.SampleRate, inC.SampleRate)
            /\ inV.Timestamp - inC.Timestamp <= 100
            /\ inC.Timestamp - inV.Timestamp <= 100)

\* A pair whose timestamps differ by exactly 100 ms was accepted.
PairAtToleranceAccepted ==
    /\ op = "ValidateSignals"
    /\ ~IsErr(err)
    /\ inC.Timestamp - inV.Timestamp = 100
    /\ Len(inV.Values) = 4

\* A spectrum that is well-formed apart from the sign of its frequency
\* bins: non-empty, as many bins as values, a non-zero timestamp, no NaN or
\* infinite value or bin.
WellFormedSpectrum(sig) ==
    /\ Len(sig.Values) > 0
    /\ Len(sig.Frequencies) = Len(sig.Values)
    /\ sig.Timestamp # ZeroTime
    /\ \A i \in 1..Len(sig.Values) :
          IsFinite(sig.Values[i].re) /\ IsFinite(sig.Values[i].im)
    /\ \A i \in 1..Len(sig.Frequencies) : IsFinite(sig.Frequencies[i])

HasNegativeBin(sig) ==
    \E i \in 1..Len(sig.Frequencies) :
        IsFinite(sig.Frequencies[i]) /\ FSign(sig.Frequencies[i]) < 0

\* C12: ValidateComplexSignal accepts every otherwise well-formed spectrum,
\* negative bins or not; ValidatePositiveFrequencySignal rejects an otherwise
\* well-formed spectrum if and only if some bin is < 0 (with the
\* negative-frequency error at the first such bin); and on a spectrum with no
\* negative bin the two validators return the same.
NegativeBinsOnlyInFullSpectrum ==
    /\ (op = "ValidateComplexSignal" /\ WellFormedSpectrum(inS))
          => ~IsErr(err)
    /\ (op = "ValidatePositiveFrequencySignal" /\ WellFormedSpectrum(inS))
          => /\ IsErr(err) <=> HasNegativeBin(inS)
             /\ IsErr(err) => err.msg = "negative frequency found"
    /\ (op = "ValidatePositiveFrequencySignal" /\ ~HasNegativeBin(inS))
          => err = ValidateComplexSignal(inS)

\* A well-formed spectrum with a zero bin and no negative bin was accepted by
\* the positive-only validation.
ZeroBinAcceptedAsPositive ==
    /\ op = "ValidatePositiveFrequencySignal"
    /\ ~IsErr(err)
    /\ Len(inS.Frequencies) = 3
    /\ inS.Frequencies[2] = I2F(0)

NonFiniteComplex(z) == ~IsFinite(z.re) \/ ~IsFinite(z.im)

\* Some numeric value of the data is NaN or infinite.
HasNonFiniteValue(data) ==
    \/ \E i \in 1..Len(data.Impedance) : NonFiniteComplex(data.Impedance[i])
    \/ \E i \in 1..Len(data.Frequencies) : ~IsFinite(data.Frequencies[i])
    \/ \E i \in 1..Len(data.Magnitude) : ~IsFinite(data.Magnitude[i].sqrtOf)
    \/ \E i \in 1..Len(data.Phase) : ~IsFinite(data.Phase[i].u)

\* Data with nothing to report but its values: non-empty, all four sequences
\* of one length, a non-zero timestamp.
WellShapedData(data) ==
    /\ Len(data.Impedance) > 0
    /\ Len(data.Frequencies) = Len(data.Impedance)
    /\ Len(data.Magnitude) = Len(data.Impedance)
    /\ Len(data.Phase) = Len(data.Impedance)
    /\ data.Timestamp # ZeroTime

\* C13 as stated: ValidateImpedanceData fails with a non-finite-value error
\* whenever an impedance component, a frequency bin, a magnitude entry or a
\* phase entry is NaN or infinite (here for data that is otherwise in order,
\* so that no other violation can be reported first).
NonFiniteDataRejected ==
    (op = "ValidateImpedanceData" /\ WellShapedData(inD)
       /\ HasNonFiniteValue(inD)) =>
        /\ IsErr(err)
        /\ err.msg \in {"NaN impedance value found",
                        "infinite impedance value found"}

\* C14: whenever ProcessSignal, GetPositiveFrequencies, CalculateImpedance
\* or ProcessEISMeasurement returns an error, the result returned with it is
\* the empty value; and a result returned without an error is one its output
\* validation accepts (a well-formed spectrum; a well-formed spectrum with no
\* negative bin; well-shaped data with finite impedance; a non-empty
\* measurement of finite points).
NoPartialResults ==
    /\ op = "ProcessSignal" =>
          IF IsErr(err) THEN outSig = EmptyComplexSignal
          ELSE WellFormedSpectrum(outSig)
    /\ op = "GetPositiveFrequencies" =>
          IF IsErr(err) THEN outSig = EmptyComplexSignal
          ELSE WellFormedSpectrum(outSig) /\ ~HasNegativeBin(outSig)
    /\ op = "CalculateImpedance" =>
          IF IsErr(err) THEN outImp = EmptyImpedanceData
          ELSE /\ WellShapedData(outImp)
               /\ \A i \in 1..Len(outImp.Impedance) :
                     ~NonFiniteComplex(outImp.Impedance[i])
    /\ op = "ProcessEISMeasurement" =>
          IF IsErr(err) THEN outMeas = <<>>
          ELSE /\ Len(outMeas) >= 1
               /\ \A i \in 1..Len(outMeas) :
                     /\ IsFinite(outMeas[i].Frequency)
                     /\ IsFinite(outMeas[i].Real)
                     /\ IsFinite(outMeas[i].Imag)

\* The half spectrum of a well-formed spectrum failed its output validation
\* and nothing was returned with the error.
HalfSpectrumRejectedEmpty ==
    /\ op = "GetPositiveFrequencies"
    /\ WellFormedSpectrum(inS)
    /\ err.ops = <<"result validation">>
    /\ outSig = EmptyComplexSignal

\* C15: ProcessSignal, GetPositiveFrequencies and CalculateImpedance are
\* deterministic and stateless: however many invocations were made before
\* and in whatever order, every invocation of an operation on the same
\* inputs returned one and the same result and error, and no invocation
\* changes the signals or the spectrum it was given.
InvocationsAgree ==
    /\ \A o \in CoreOps : Cardinality(seen[o]) <= 1
    /\ op \in CoreOps =>
           seen[op] = {[sig |-> outSig, imp |-> outImp, err |-> err]}

InputsKept == inV' = inV /\ inC' = inC /\ inS' = inS

QueuesWithinCap == Len(vq) <= QueueCap /\ Len(cq) <= QueueCap

FullQueueDropsNewest ==
    /\ (ppc = "sendV" /\ ppc' # ppc /\ Len(vq) = QueueCap)
           => (vq' = vq /\ ppc' = "sendC")
    /\ (ppc = "sendC" /\ ppc' # ppc /\ Len(cq) = QueueCap)
           => (cq' = cq /\ ppc' = "loop")

DropNewestOnFull == []QueuesWithinCap /\ [][FullQueueDropsNewest]_vars

\* C17: when the consumer has received a voltage signal of some tick and the
\* current channel buffers nothing, its cycle is skipped: the calculator is
\* handed nothing, nothing is put out, the voltage signal is neither kept nor
\* put back, and the consumer is at its select again.
SkippedWhenCurrentEmpty ==
    [][(cpc = "gotV" /\ cpc' # cpc /\ held # ZeroItem /\ cq = <<>>)
          => (/\ cycle' = "skipped"
              /\ handed' = handed
              /\ held' = NoItem
              /\ vq' = vq
              /\ cpc' = "select")]_vars

\* C18: pairing is best effort: the calculator may be handed the voltage of
\* a tick with the current of another tick (PairOfDifferentTicksHanded is
\* reached).  All that holds of the signals handed over is that each was
\* sent at a tick taken and that each channel's signals are handed over in
\* the order of their ticks, none twice.
HandedInChannelOrder ==
    handed' # handed =>
        \A k \in 1..2 :
            handed'[k] # ZeroItem =>
                /\ handed'[k] \in 1..tick
                /\ handed # <<>> => handed'[k] > handed[k]

PairingIsBestEffort == [][HandedInChannelOrder]_vars

\* Before any shutdown, the calculator was handed a voltage with the
\* current of a later tick, the current of its own tick having been dropped.
PairOfDifferentTicksHanded ==
    /\ handed # <<>>
    /\ handed[1] # ZeroItem
    /\ handed[1] < handed[2]
    /\ ~cancelled

\* C19: once ctx is cancelled, StartReceiving and processSignals both
\* return in the end, wg.Wait() returns and main reaches its stopped state.
ShutdownCompletes ==
    cancelled ~> (ppc = "returned" /\ cpc = "returned" /\ mpc = "stopped")

\* C20: when the direct EIS loop has stopped by itself, it has generated
\* exactly spectraCount spectra, with the iterations 0, 1, ..., spectraCount-1
\* in this order, and no batch held more than BatchSize of them.
GeneratesExactlySpectraCount ==
    /\ Len(batch) <= BatchSize
    /\ epc = "stopped" =>
           iterations = [i \in 1..spectraCount |-> i - 1]

\* A pair ValidateSignals accepts, with finite samples and a finite rate.
AcceptedFinitePair ==
    /\ op = "CalculateImpedance"
    /\ ~IsErr(ValidateSignals(inV, inC))
    /\ WellFormed(inV)
    /\ WellFormed(inC)
    /\ IsFinite(inV.SampleRate)

\* C21 as stated: for every accepted pair of every length n >= 1 (n = 1
\* included) whose values are finite, GetPositiveFrequencies does not fail on
\* the transforms, CalculateImpedance succeeds, bin 0 of the half spectrum
\* has frequency exactly 0 and no bin of it is negative.
HalfSpectrumOfTransformIsNonNegative ==
    AcceptedFinitePair =>
        /\ ~IsErr(err)
        /\ Len(outImp.Frequencies) >= 1
        /\ outImp.Frequencies[1] = I2F(0)
        /\ \A i \in 1..Len(outImp.Frequencies) :
              ~FNegative(outImp.Frequencies[i])

\* C22: the recursion of computeFFT returns what the direct sum
\* X[k] = sum_j x[j] w^(k j) over the whole input returns, for Gaussian
\* integer sequences of the lengths 1, 2, 4 (twiddles in {1, -1, i, -i}) and
\* also 3 and 6.
RecursionEqualsDirectSum ==
    op = "computeFFT" =>
        /\ ~IsErr(err)
        /\ outSig.Values =
               AsSeq([k \in 1..Len(inS.Values) |->
                        DftSum(inS.Values, k - 1, Len(inS.Values))])

\* A sequence of length 4 with an entry that is not real was transformed
\* through two levels of recursion.
GaussianSequenceOfFourTransformed ==
    /\ op = "computeFFT"
    /\ ~IsErr(err)
    /\ inS.Values = <<CxInt(0, 1), CxInt(0, 0), CxInt(1, -1), CxInt(0, 0)>>
    /\ outSig.Values = <<CxInt(1, 0), CxInt(-1, 2), CxInt(1, 0), CxInt(-1, 2)>>

\* The exponent of 2 in n >= 1.
TwoExponent(n) ==
    CHOOSE k \in 0..n : n % (2 ^ k) = 0 /\ n % (2 ^ (k + 1)) # 0

\* The call that made the i-th call of a trace: the last one before it that
\* is nested one level less deep.
CallerOf(trace, i) ==
    CHOOSE j \in 1..(i - 1) :
        /\ trace[j].depth = trace[i].depth - 1
        /\ \A m \in (j + 1)..(i - 1) : trace[m].depth >= trace[i].depth

\* C23: computeFFT on a sequence of length n >= 1 makes finitely many calls,
\* each one below the first on exactly half of the even length of its
\* caller; a call on an odd length (the direct sum, or the identity for 1)
\* makes none; the deepest call is nested as deep as the exponent of 2 in
\* n, at most log2(n); for length 0 the only call is the outer one, which
\* returns the invalid-length error.
RecursionHalvesUntilOdd ==
    op \in {"computeFFT", "computeFFTOfLength"} =>
        /\ Len(calls) >= 1
        /\ calls[1] = [len |-> argN, depth |-> 0]
        /\ argN = 0 => Len(calls) = 1 /\ err = ErrInvalidSignalLength
        /\ argN >= 1 =>
              /\ \A i \in 2..Len(calls) :
                    /\ calls[i].depth >= 1
                    /\ \E j \in 1..(i - 1) :
                          calls[j].depth = calls[i].depth - 1
                    /\ calls[CallerOf(calls, i)].len % 2 = 0
                    /\ 2 * calls[i].len = calls[CallerOf(calls, i)].len
              /\ \A i \in 1..Len(calls) :
                    /\ calls[i].len >= 1
                    /\ calls[i].len % 2 # 0 =>
                          i = Len(calls) \/ calls[i + 1].depth <= calls[i].depth
                    /\ calls[i].len % 2 = 0 =>
                          i < Len(calls) /\ calls[i + 1].depth = calls[i].depth + 1
                    /\ calls[i].depth <= TwoExponent(argN)
                    /\ 2 ^ calls[i].depth <= argN
              /\ \E i \in 1..Len(calls) : calls[i].depth = TwoExponent(argN)
              /\ argN % 2 # 0 => Len(calls) = 1

\* A sequence of length 12 was transformed: two levels of halving, then the
\* direct sum on four sequences of length 3.
TwelveHalvedTwiceThenSummed ==
    /\ op = "computeFFTOfLength"
    /\ argN = 12
    /\ ~IsErr(err)
    /\ Len(calls) = 7
    /\ calls[3] = [len |-> 3, depth |-> 2]

\* A frequency the positive-only validation does not accept.
OffendingBin(x) == IsNaN(x) \/ IsInf(x) \/ FNegative(x)

\* The message for a frequency that is not accepted.
OffenceOf(x) ==
    IF IsNaN(x) THEN "NaN frequency found"
    ELSE IF IsInf(x) THEN "infinite frequency found"
    ELSE "negative frequency found"

\* The positive-only validation was applied to a spectrum in which nothing
\* but the frequencies is at fault.
PositiveOnlyValidationOfBadBins ==
    /\ \/ /\ op = "ValidatePositiveFrequencySignal"
          /\ Len(inS.Values) > 0
          /\ Len(inS.Values) = Len(inS.Frequencies)
          /\ inS.Timestamp # ZeroTime
          /\ \A i \in 1..Len(inS.Values) : ~CBad(inS.Values[i])
       \/ op = "ValidateFrequencies" /\ argN = 0
    /\ \E i \in 1..Len(inS.Frequencies) : OffendingBin(inS.Frequencies[i])

\* C24 as stated: the violation the positive-only validation reports is the
\* one of the offending bin of lowest index, whichever kind it is.
FirstOffendingBinIsReported ==
    PositiveOnlyValidationOfBadBins =>
        \E first \in {FirstIndex(inS.Frequencies, OffendingBin)} :
            /\ err.kind = "ValidationError"
            /\ err.field = "Frequencies"
            /\ err.index = first - 1
            /\ err.msg = OffenceOf(inS.Frequencies[first])

\* The rules a real signal violates, by their priority: 1 no sample, 2
\* sample rate <= 0, 3 zero timestamp, 4 a sample that is not finite.
RulesViolated(sig) ==
    {r \in 1..4 :
        \/ r = 1 /\ Len(sig.Values) = 0
        \/ r = 2 /\ FLeq(sig.SampleRate, I2F(0))
        \/ r = 3 /\ sig.Timestamp = ZeroTime
        \/ r = 4 /\ \E i \in 1..Len(sig.Values) : ~IsFinite(sig.Values[i])}

\* The rule an error of ValidateSignal reports, 0 for none.
RuleReported(e) ==
    IF ~IsErr(e) THEN 0
    ELSE IF e.field = "Values" /\ e.index = -1 THEN 1
    ELSE IF e.field = "SampleRate" THEN 2
    ELSE IF e.field = "Timestamp" THEN 3
    ELSE 4

\* C25: ValidateSignal reports one violation, that of the violated rule of
\* highest priority (no sample, sample rate <= 0, zero timestamp, first
\* sample that is not finite), and none if no rule is violated.
ViolationOfHighestPriorityReported ==
    op = "ValidateSignal" =>
        \E rules \in {RulesViolated(inV)} :
            /\ rules = {} <=> ~IsErr(err)
            /\ rules # {} =>
                  /\ err.kind = "ValidationError"
                  /\ RuleReported(err) \in rules
                  /\ \A r \in rules : RuleReported(err) <= r
                  /\ RuleReported(err) = 4 =>
                        /\ err.field = "Values"
                        /\ ~IsFinite(inV.Values[err.index + 1])
                        /\ \A i \in 1..err.index : IsFinite(inV.Values[i])

\* A signal with a sample rate of 0, a zero timestamp and a NaN sample was
\* rejected for its sample rate.
ThreeViolationsOneReported ==
    /\ op = "ValidateSignal"
    /\ RulesViolated(inV) = {2, 3, 4}
    /\ inV.SampleRate = I2F(0)
    /\ err.field = "SampleRate"

\* C26 as stated: whenever the producer executes one of its two sends, Stop
\* has not yet closed the channel it sends on.
SendsPrecedeClose ==
    [][/\ ProducerSendVoltage => ~vClosed
       /\ ProducerSendCurrent => ~cClosed]_vars

\* The producer is between taking a tick and the end of its handling.
HandlingTick == ppc \in {"sendV", "sendC"}

\* The index counts the ticks handled, stays within the pairs loaded, and a
\* return of nil without cancellation comes after one tick for each pair.
FileIndexCountsHandledTicks ==
    /\ GetProgress.current >= 0
    /\ GetProgress.current <= GetProgress.total
    /\ ppc # "panicked" =>
          currentIndex = tick - (IF HandlingTick THEN 1 ELSE 0)
    /\ (fret = "nil" /\ ~cancelled) =>
          /\ ppc = "returned"
          /\ currentIndex = Len(signals)
          /\ tick = Len(signals)

\* The index moves by one, when the handling of a tick ends (the pair was
\* passed over as invalid, or both sends were done), and a pair is offered
\* to the channels at the current index, above every index offered before.
FileIndexAdvancesPerTick ==
    /\ currentIndex' \in {currentIndex, currentIndex + 1}
    /\ currentIndex' = currentIndex + 1 <=>
          /\ ppc' = "loop"
          /\ ppc \in {"select", "sendC"}
    /\ offered' # offered =>
          /\ offered' = Append(offered, currentIndex)
          /\ \A k \in 1..Len(offered) : offered[k] < currentIndex

\* StartReceiving has returned nil with every pair handled.
FileAllHandled ==
    /\ ppc = "returned"
    /\ fret = "nil"
    /\ currentIndex = Len(signals)
    /\ tick = Len(signals)

\* C28: in a file receiver with N >= 1 pairs the index starts at 0, moves
\* by one with every tick handled (pair enqueued, dropped or passed over as
\* invalid), never exceeds N, and every index is offered at most once, in
\* increasing order; GetProgress is always within 0..total; and unless the
\* receiver is cancelled StartReceiving returns nil after N handled ticks.
FileReceiverHandlesEachPairOnce ==
    /\ currentIndex = 0
    /\ []FileIndexCountsHandledTicks
    /\ [][FileIndexAdvancesPerTick]_vars
    /\ <>(Len(signals) = 0 \/ cancelled \/ FileAllHandled)

\* A receiver of MaxPairs valid pairs, never cancelled, has returned nil: it
\* offered every pair, and the first channel, never read, dropped the last.
FileReceiverRanToTheEnd ==
    /\ ~cancelled
    /\ FileAllHandled
    /\ Len(signals) = MaxPairs
    /\ Len(offered) = MaxPairs
    /\ Len(vq) = QueueCap
    /\ cq # <<>>

\* IsHealthy() is true while no send with a target URL was made, and then
\* tells whether the last such send got status 200 or 202.
HealthIsLastOutcome ==
    /\ IsHealthy <=>
          \/ lastSend.stage = "none"
          \/ lastSend.stage = "response" /\ lastSend.status \in {200, 202}
    /\ lastSend.stage = "none" <=> (sends = 0 \/ targetURL = "")

\* A send returns nil exactly when it leaves the sender healthy after a
\* request; without a target URL it returns an error, makes no request and
\* leaves the flag as it was.
SendSetsHealth ==
    sends' = sends + 1 =>
        IF targetURL = ""
        THEN /\ sendErr' # "nil"
             /\ requests' = requests
             /\ healthy' = healthy
             /\ lastSend' = lastSend
        ELSE /\ sendErr' = "nil" <=> healthy'
             /\ healthy' => requests' = requests + 1
             /\ lastSend'.stage # "none"

\* C27: the sender is healthy after construction; after any sends,
\* IsHealthy() is the outcome of the last send made with a target URL, true
\* if and only if it got status 200 or 202; a send without a target URL
\* returns an error, makes no request and leaves the flag unchanged.
HealthFlagTracksLastSend ==
    /\ IsHealthy = TRUE
    /\ []HealthIsLastOutcome
    /\ [][SendSetsHealth]_vars

\* After a request that was answered, a batch was answered 404: the sender
\* is unhealthy.
UnhealthyAfterRejectedBatch ==
    /\ sends = MaxSends
    /\ requests = MaxSends
    /\ ~IsHealthy
    /\ lastSend = SendOutcome("Impedance-Batch", "response", 404)

\* The values of the third column of the data rows, in order.
ValueColumn == [i \in 1..(Len(records) - 1) |-> ParseFloat(records[i + 1][3])]

\* The samples of the signals loaded, one signal after the other.
RECURSIVE Concatenation(_)
Concatenation(sigs) ==
    IF sigs = <<>> THEN <<>>
    ELSE Head(sigs).Values \o Concatenation(Tail(sigs))

\* LoadSignalFromCSV was applied at a sample rate > 0 that the configuration
\* accepts to a file with data rows that all parse, to finite values and
\* times that are not zero.
LoadedWellFormedFile ==
    /\ lpc # "ready"
    /\ FLess(I2F(0), csvRate)
    /\ ConfigAcceptsSampleRate(csvRate)
    /\ Len(records) >= 2
    /\ \A i \in 2..Len(records) :
          /\ ParseFloat(records[i][3]).ok
          /\ IsFinite(ParseFloat(records[i][3]).val)
          /\ ParseTime(records[i][1]).ok
          /\ ParseTime(records[i][1]).val # ZeroTime

\* The R data rows are split into ceil(R / k) consecutive signals of k
\* samples, the last of 1..k, whose samples are the value column.
SplitIntoChunksOf(k) ==
    LET R == Len(records) - 1
    IN  /\ k >= 1
        /\ Len(loaded) = (R + k - 1) \div k
        /\ \A j \in 1..(Len(loaded) - 1) : Len(loaded[j].Values) = k
        /\ Len(loaded[Len(loaded)].Values) \in 1..k
        /\ Concatenation(loaded) =
               AsSeq([i \in 1..R |-> ValueColumn[i].val])

\* C29 as stated: at every sample rate > 0 that the configuration accepts,
\* LoadSignalFromCSV returns for a file of R >= 1 data rows, with the rows
\* split into ceil(R / k) consecutive signals for k = int(sampleRate).
LoaderSplitsIntoSeconds ==
    LoadedWellFormedFile =>
        /\ lpc = "returned"
        /\ ~IsErr(loadErr)
        /\ SplitIntoChunksOf(IntOf(csvRate))

\* The lengths of the two half spectra CalculateImpedance compares, when
\* both transforms and both extractions succeed; <<>> otherwise.
HalfSpectraLengths(voltageSignal, currentSignal) ==
    Bind2(ProcessSignal(voltageSignal), ProcessSignal(currentSignal),
          LAMBDA voltageFFT, currentFFT :
        IF IsErr(voltageFFT.err) \/ IsErr(currentFFT.err) THEN <<>>
        ELSE Bind2(GetPositiveFrequencies(voltageFFT.res),
                   GetPositiveFrequencies(currentFFT.res),
                   LAMBDA voltagePos, currentPos :
                 IF IsErr(voltagePos.err) \/ IsErr(currentPos.err) THEN <<>>
                 ELSE <<Len(voltagePos.res.Values),
                        Len(currentPos.res.Values)>>))

\* C30: once ValidateSignals has accepted the pair and both transforms and
\* both extractions have succeeded, the two half spectra have the same
\* length, so CalculateImpedance never returns the mismatched-length error
\* of its comparison after the extraction.
PostExtractionLengthCheckNeverFails ==
    op = "CalculateImpedance" =>
        /\ ~(/\ err.kind = "ErrMismatchedSignalLength"
             /\ err.ops = <<"impedance calculation">>)
        /\ ~IsErr(ValidateSignals(inV, inC)) =>
              \E lens \in {HalfSpectraLengths(inV, inC)} :
                  lens # <<>> => lens[1] = lens[2]

\* A pair of four samples each went through both extractions and gave an
\* impedance of two bins.
PairOfFourPassedLengthCheck ==
    /\ op = "CalculateImpedance"
    /\ ~IsErr(err)
    /\ Len(inV.Values) = 4
    /\ Len(inC.Values) = 4
    /\ HalfSpectraLengths(inV, inC) = <<2, 2>>
    /\ Len(outImp.Impedance) = 2

============================================================================
